---- MODULE Spec2Model ----
(***************************************************************************)
(* Publication scheduler of the Telegram redistribution bot (src/schu.py,  *)
(* src/database.py, src/config.py).  One tenant store, the tick loop run   *)
(* by two workers, the one-shot pass, the random pass with its slot and    *)
(* dedup reservations, the backfill pass and loop cancellation.            *)
(*                                                                         *)
(* Time is an integer count of clock units ("seconds"); a minute is        *)
(* SecPerMin units and a day MinPerDay minutes, scaled down from 60/1440.  *)
(***************************************************************************)
EXTENDS Integers, Sequences, FiniteSets, Bags, TLC

VARIABLES
    now,                \* wall clock, datetime.now()
    horizon,            \* last clock value the model follows
    Config,             \* config.Config: the two safety caps
    dedup_table,        \* whether table published_dedup (with its UNIQUE index) exists
    published_dedup,    \* rows of published_dedup
    posts,              \* rows of posts (the slots), indexed by id
    random_posts,       \* rows of random_posts (the RandomStreams), indexed by id
    pc,                 \* per worker: position in scheduler_loop
    due_rows,           \* per worker: rows fetched by the running pass, not yet visited
    cur,                \* per worker: post_id of the row being processed
    attempt,            \* per worker: retry-loop counter
    post_data,          \* per worker: local post_data
    fingerprint,        \* per worker: local fingerprint
    last_backfill_time, \* per worker: self._last_backfill_time
    sent,               \* history: bag of the messages the bot API accepted
    turn,               \* history: per worker, what its latest turn on a slot did
    repost_streams,     \* rows of repost_streams (the RepostStreams), indexed by id
    donor_chat,         \* the donor channel's history; a message's id is its index
    last_message_id,    \* per worker: last_id of the stream row the poll read
    new_messages,       \* per worker: (message id, target) pairs still to repost
    max_id,             \* per worker: max(msg.id for msg in new_messages), 0 if none
    polled,             \* history: the donors whose history a poll of the stream has read
    periodic_posts,     \* rows of periodic_posts (the PeriodicStreams), indexed by id
    target_channels,    \* per worker: targets of the periodic post still to visit
    current_time,       \* per worker: current_time of the running periodic pass
    client_cache,       \* self._client_cache: per session_string, the cached client
    active_clients,     \* auth_handler.active_clients: per user, the login-flow client
    client,             \* per worker: what its latest _get_client call returned
    starts,             \* history: per session_string, clients started since the last stop()
    channel_locks,      \* self._channel_locks: per channel, the task that holds its lock
    session_string,     \* self.session_string: the main credential, "" when there is none
    linked_accounts,    \* rows of linked_accounts: per phone, the session_string ("none": no row)
    db_files,           \* per worker: tenant databases the running pass has still to visit
    tenants,            \* per tenant database: is_published of each of its due random slots
    visited             \* history: per worker, what the running pass opened and attempted

vars == <<now, horizon, Config, dedup_table, published_dedup, posts, random_posts, pc,
          due_rows, cur, attempt, post_data, fingerprint, last_backfill_time,
          sent, turn, repost_streams, donor_chat, last_message_id, new_messages,
          max_id, polled, periodic_posts, target_channels, current_time,
          client_cache, active_clients, client, starts, channel_locks,
          session_string, linked_accounts, db_files, tenants, visited>>

----------------------------------------------------------------------------
\* Bounds of the model

MaxTime == 1
MaxSent == 2
MaxPosts == 4
MaxCap == 1
MaxSpacing == 1
MaxPerDay == 1
SecPerMin == 1
MinPerDay == 3
MaxJitter == 1
MaxMsgs == 3
MaxFill == 6
PeriodLen == 2
MaxPeriodicSent == 3
MaxFillPerDay == 2
BackfillEvery == 2

\* Program constants

max_retries == 5
MinFutureMinutes == 2
FprTextLen == 300
ScheduledLimit == 50
RandomLimit == 100
HistoryLimit == 50

Workers == {"w1", "w2"}

\* session strings of the accounts the streams read with, and users of the bot
Sessions == {"s1", "s2"}
Phones == {"+1", "+2"}
Users == {"u1", "u2"}
Channels == {100, 200}
NULL == -1

\* a scheduled_time that datetime.fromisoformat rejects: the empty string, which
\* SQL sorts before every timestamp
BadTime == -2

DayLen == MinPerDay * SecPerMin
DayStart(t) == (t \div DayLen) * DayLen
DayEnd(t) == DayStart(t) + DayLen - 1

Min(a, b) == IF a <= b THEN a ELSE b
Max(a, b) == IF a >= b THEN a ELSE b

----------------------------------------------------------------------------
\* Donor content and fingerprints

NoPost == [type |-> "none", caption |-> <<>>, text |-> <<>>, media |-> "none"]
NoFingerprint == <<>>

M1 == [type |-> "text", caption |-> <<>>, text |-> <<"a">>, media |-> "none"]
M2 == [type |-> "text", caption |-> <<>>, text |-> <<"a", " ">>, media |-> "none"]
M3 == [type |-> "photo", caption |-> <<"a", " ">>, text |-> <<>>, media |-> "m1"]

\* the content kinds a slot or a payload can have besides repost
OneShotKinds == {"text", "photo", "video", "document", "audio", "voice", "sticker"}

\* what get_chat_history of each donor serves
DonorHistory == [d \in {"@a", "@b"} |-> IF d = "@a" THEN {M1, M2} ELSE {M1, M3}]

RECURSIVE LStrip(_)
LStrip(s) == IF s # <<>> /\ Head(s) = " " THEN LStrip(Tail(s)) ELSE s

RECURSIVE RStrip(_)
RStrip(s) == IF s # <<>> /\ s[Len(s)] = " " THEN RStrip(SubSeq(s, 1, Len(s) - 1)) ELSE s

Strip(s) == RStrip(LStrip(s))

Take(s, n) == SubSeq(s, 1, Min(n, Len(s)))

\* sha256(...).hexdigest()[:32], taken as injective on the strings that occur
\* media "closed" is a BytesIO after close(): getvalue() raises and line 1303
\* leaves media_hash empty
MediaHash(m) == IF m \in {"none", "closed"} THEN "" ELSE m

make_post_fingerprint(pd) ==
    <<pd.type, Take(Strip(pd.caption), FprTextLen), Take(Strip(pd.text), FprTextLen),
      MediaHash(pd.media)>>

----------------------------------------------------------------------------
\* Tenant store

\* create_user_database makes info, posts, channels, linked_accounts,
\* repost_streams, periodic_posts, random_posts: no published_dedup
create_user_database == "missing"

\* CREATE TABLE IF NOT EXISTS published_dedup + CREATE UNIQUE INDEX IF NOT EXISTS
migrate_published_dedup_table(t) == "unique"

PostIds == 1..Len(posts)

SetPublished(p, id, v) == [p EXCEPT ![id].is_published = v]

\* an UPDATE that marks nothing
CommitSlot_AsPending(p, id, t) == p

\* UPDATE posts SET is_published = 1, last_post_time = ? WHERE id = ?
\* (posts.last_post_time is written here and read nowhere in the scheduler: not kept)
CommitSlot(p, id, t) == [p EXCEPT ![id].is_published = 1]

\* a reservation that does not look at changes()
ReserveSlotOk_AsAlways(p, id) == TRUE

\* UPDATE posts SET is_published = -1 WHERE id = ? AND is_published = 0; changes()
ReserveSlotOk(p, id) == p[id].is_published = 0
ReserveSlotRows(p, id) == IF p[id].is_published = 0 THEN SetPublished(p, id, -1) ELSE p

\* a release that changes no row
ReleaseSlot_AsKept(p, id) == p

\* a release without the is_published = -1 condition
ReleaseSlot_AsUnguarded(p, id) == SetPublished(p, id, 0)

\* UPDATE posts SET is_published = 0 WHERE id = ? AND is_published = -1
ReleaseSlot(p, id) == IF p[id].is_published = -1 THEN SetPublished(p, id, 0) ELSE p

DedupHas(tbl, ch, f) == \E r \in tbl : r.channel_id = ch /\ r.fingerprint = f

\* _reserve_dedup: INSERT OR IGNORE ...; changes() > 0; on any exception True
reserve_dedup_ok(tbl, ch, f) ==
    IF dedup_table = "missing" THEN TRUE ELSE ~DedupHas(tbl, ch, f)

reserve_dedup_rows(tbl, ch, f, t) ==
    IF dedup_table = "missing" \/ DedupHas(tbl, ch, f) THEN tbl
    ELSE tbl \cup {[channel_id |-> ch, fingerprint |-> f, published_at |-> t]}

\* an except-block that leaves the dedup record in place
release_dedup_AsKept(tbl, ch, f) == tbl

\* DELETE FROM published_dedup WHERE channel_id = ? AND fingerprint = ?
release_dedup(tbl, ch, f) == {r \in tbl : ~(r.channel_id = ch /\ r.fingerprint = f)}

\* ids of S as a sequence ordered by (scheduled_time, id)
RECURSIVE OrderByTime(_, _)
OrderByTime(p, S) ==
    IF S = {} THEN <<>>
    ELSE LET m == CHOOSE x \in S : \A y \in S :
                      \/ p[x].scheduled_time < p[y].scheduled_time
                      \/ (p[x].scheduled_time = p[y].scheduled_time /\ x <= y)
         IN <<m>> \o OrderByTime(p, S \ {m})

RECURSIVE OrderById(_)
OrderById(S) ==
    IF S = {} THEN <<>>
    ELSE LET m == CHOOSE x \in S : \A y \in S : x <= y
         IN <<m>> \o OrderById(S \ {m})

\* SELECT ... WHERE is_published = 0 AND content_type != 'random' AND scheduled_time <= ? LIMIT 50
DueScheduled(p, t) ==
    Take(OrderById({id \in DOMAIN p : /\ p[id].is_published = 0
                                       /\ p[id].content_type # "random"
                                       /\ p[id].scheduled_time <= t}), ScheduledLimit)

\* SELECT ... WHERE is_published = 0 AND content_type = 'random' AND scheduled_time <= ?
\* ORDER BY scheduled_time ASC LIMIT 100
DueRandom(p, t) ==
    Take(OrderByTime(p, {id \in DOMAIN p : /\ p[id].is_published = 0
                                           /\ p[id].content_type = "random"
                                           /\ p[id].scheduled_time <= t}), RandomLimit)

\* SELECT scheduled_time FROM posts WHERE random_post_id = ? AND is_published = 0
\* AND scheduled_time > ? ORDER BY scheduled_time ASC
UnionTimes(p, sid, t) ==
    LET ids == OrderByTime(p, {id \in DOMAIN p : /\ p[id].random_post_id = sid
                                                 /\ p[id].is_published = 0
                                                 /\ p[id].scheduled_time > t})
    IN [i \in 1..Len(ids) |-> p[ids[i]].scheduled_time]

\* UPDATE random_posts SET last_post_time = ? / next_post_times_json = ? WHERE id = ?
TouchStream(rp, p, sid, t) ==
    IF sid \in DOMAIN rp
    THEN [rp EXCEPT ![sid].last_post_time = t, ![sid].next_post_times = UnionTimes(p, sid, t)]
    ELSE rp

----------------------------------------------------------------------------
\* Worker-local updates

\* what the repost pass works on; the other passes leave it alone
repostVars == <<repost_streams, donor_chat, last_message_id, new_messages, max_id>>

\* what no pass writes, and what the one-shot, random and backfill passes do not touch
\* what the periodic pass works on, and the two client registries
periodicVars == <<periodic_posts, target_channels, current_time>>
poolVars == <<client_cache, active_clients, client, starts>>

\* no client: the call returned None or raised
NoClient == [session |-> "none", started |-> FALSE, is_connected |-> FALSE,
             awaiting |-> FALSE]

\* the credentials, which no pass writes, and the locks of the ad-hoc publisher
credVars == <<session_string, linked_accounts>>
gateVars == <<channel_locks, credVars>>
tenantVars == <<db_files, tenants, visited>>

cfgVars == <<horizon, Config, dedup_table, gateVars, tenantVars, repostVars, polled, periodicVars, poolVars>>
locals == <<attempt, post_data, fingerprint>>

Goto(w, l) == pc' = [pc EXCEPT ![w] = l]

\* slot: the post the turn is about; inserted: the (channel, fingerprint) records
\* the turn added to published_dedup; publish: "none", "ok" or "failed";
\* end: how the turn ended ("none" while it runs); retry: the worker's previous
\* turn was on the same slot and was rolled back after a failed publication
NewTurn == [slot |-> 0, inserted |-> {}, publish |-> "none", end |-> "none",
            retry |-> FALSE]

Ended(w, how) == turn' = [turn EXCEPT ![w].end = how]

\* the row loop moves on to the next row of the pass; the locals of the row are
\* reassigned (lines 333-336) before they are read again, so they are dropped here
NextRow(w) ==
    /\ Goto(w, "row")
    /\ cur' = [cur EXCEPT ![w] = 0]
    /\ attempt' = [attempt EXCEPT ![w] = 0]
    /\ post_data' = [post_data EXCEPT ![w] = NoPost]
    /\ fingerprint' = [fingerprint EXCEPT ![w] = NoFingerprint]

\* w is between its reservation of a slot (line 304) and the statement that
\* commits or releases it
Holds(w) == pc[w] \in {"nodonors", "retry", "absorb", "caps", "publish", "commit",
                       "handler"}

----------------------------------------------------------------------------
\* One-shot pass: check_scheduled_posts

IsDigit(s) == s \in {"5", "100"}
LStripMinus(s) == IF s = "-100" THEN "100" ELSE s

\* what the row makes the bot do: "publish", "forward" or "nothing"
ScheduledSend(row) ==
    IF row.content_type \in {"text", "photo", "video"} THEN "publish"
    ELSE IF row.content_type = "repost"
         THEN IF /\ Len(row.content) >= 3
                 /\ IsDigit(LStripMinus(row.content[2]))
                 /\ IsDigit(row.content[3])
              THEN "forward" ELSE "nothing"
         ELSE "nothing"

StartScheduledPass(w) ==
    /\ pc[w] = "scheduled"
    /\ due_rows' = [due_rows EXCEPT ![w] = DueScheduled(posts, now)]
    /\ Goto(w, "os_row")
    /\ UNCHANGED <<now, cfgVars, published_dedup, posts, random_posts, cur, locals,
                   last_backfill_time, sent, turn>>

\* lines 153-173: build the payload and send or forward it; when the bot API
\* raises, the error is logged and the loop goes to the next row
PublishScheduled(w) ==
    /\ pc[w] = "os_row"
    /\ due_rows[w] # <<>>
    /\ LET id == Head(due_rows[w])
           how == ScheduledSend(posts[id])
       IN /\ due_rows' = [due_rows EXCEPT ![w] = Tail(@)]
          /\ \/ /\ how = "nothing"
                /\ Goto(w, "os_commit")
                /\ cur' = [cur EXCEPT ![w] = id]
                /\ UNCHANGED sent
             \/ /\ how # "nothing"
                /\ BagCardinality(sent) < MaxSent
                /\ sent' = sent (+) SetToBag({[post_id |-> id,
                                                channel_id |-> posts[id].channel_id,
                                                fingerprint |-> NoFingerprint,
                                                kind |-> how, day |-> now \div DayLen]})
                /\ Goto(w, "os_commit")
                /\ cur' = [cur EXCEPT ![w] = id]
             \/ /\ how # "nothing"
                /\ UNCHANGED <<pc, cur, sent>>
    /\ UNCHANGED <<now, cfgVars, published_dedup, posts, random_posts, locals,
                   last_backfill_time, turn>>

\* lines 175-179: mark the post published; a storage error is logged, next row
CommitScheduled(w) ==
    /\ pc[w] = "os_commit"
    /\ \/ posts' = CommitSlot(posts, cur[w], now)
       \/ UNCHANGED posts
    /\ Goto(w, "os_row")
    /\ cur' = [cur EXCEPT ![w] = 0]
    /\ UNCHANGED <<now, cfgVars, published_dedup, random_posts, due_rows, locals,
                   last_backfill_time, sent, turn>>

EndScheduledPass(w) ==
    /\ pc[w] = "os_row"
    /\ due_rows[w] = <<>>
    /\ Goto(w, "random")
    /\ UNCHANGED <<now, cfgVars, published_dedup, posts, random_posts, due_rows, cur,
                   locals, last_backfill_time, sent, turn>>

----------------------------------------------------------------------------
\* Random pass: check_random_posts

StartRandomPass(w) ==
    /\ pc[w] = "random"
    /\ LET due == DueRandom(posts, now)
       IN /\ due_rows' = [due_rows EXCEPT ![w] = due]
          /\ Goto(w, IF due = <<>> THEN "maintain" ELSE "row")
    /\ UNCHANGED <<now, cfgVars, published_dedup, posts, random_posts, cur, locals,
                   last_backfill_time, sent, turn>>

EndRandomPass(w) ==
    /\ pc[w] = "row"
    /\ due_rows[w] = <<>>
    /\ Goto(w, "maintain")
    /\ UNCHANGED <<now, cfgVars, published_dedup, posts, random_posts, due_rows, cur,
                   locals, last_backfill_time, sent, turn>>

\* a guard that lets every fetched row through
NotYetDue_AsNever(at, t) == FALSE

\* lines 291-300: the row is passed over when its scheduled_time does not parse
\* or is later than now
NotYetDue(at, t) == at = BadTime \/ at > t

\* lines 288-336: parse guard, compare-and-set 0 -> -1, donors snapshot, loop locals
ReserveSlot(w) ==
    /\ pc[w] = "row"
    /\ due_rows[w] # <<>>
    /\ LET id == Head(due_rows[w])
       IN /\ due_rows' = [due_rows EXCEPT ![w] = Tail(@)]
          /\ IF NotYetDue(posts[id].scheduled_time, now)
             THEN UNCHANGED <<posts, pc, cur, locals, turn>>
             ELSE IF ~ReserveSlotOk(posts, id)
             THEN /\ turn' = [turn EXCEPT ![w] = [NewTurn EXCEPT !.slot = id, !.end = "lost"]]
                  /\ UNCHANGED <<posts, pc, cur, locals>>
             ELSE /\ posts' = ReserveSlotRows(posts, id)
                  /\ cur' = [cur EXCEPT ![w] = id]
                  /\ turn' = [turn EXCEPT ![w] =
                                [NewTurn EXCEPT !.slot = id,
                                                !.retry = /\ turn[w].slot = id
                                                          /\ turn[w].end = "rolledback"
                                                          /\ turn[w].publish = "failed"]]
                  /\ Goto(w, IF posts[id].donors = {} THEN "nodonors" ELSE "retry")
                  /\ UNCHANGED locals
    /\ UNCHANGED <<now, cfgVars, published_dedup, random_posts, last_backfill_time, sent>>

\* lines 319-330: no donors, the reservation is taken back
ReleaseNoDonors(w) ==
    /\ pc[w] = "nodonors"
    /\ posts' = ReleaseSlot(posts, cur[w])
    /\ NextRow(w)
    /\ Ended(w, "nodonors")
    /\ UNCHANGED <<now, cfgVars, published_dedup, random_posts, due_rows,
                   last_backfill_time, sent>>

\* lines 337-350: one iteration of the retry loop
Attempt(w) ==
    /\ pc[w] = "retry"
    /\ LET id == cur[w]
           ch == posts[id].channel_id
           more == IF attempt[w] + 1 >= max_retries THEN "absorb" ELSE "retry"
       IN \E donor \in posts[id].donors : \E got \in DonorHistory[donor] \cup {NoPost} :
            /\ IF got = NoPost
               THEN /\ attempt' = [attempt EXCEPT ![w] = @ + 1]
                    /\ post_data' = [post_data EXCEPT ![w] = NoPost]
                    /\ Goto(w, more)
                    /\ UNCHANGED <<fingerprint, published_dedup, turn>>
               ELSE LET f == make_post_fingerprint(got)
                        tbl == reserve_dedup_rows(published_dedup, ch, f, now)
                    IN /\ fingerprint' = [fingerprint EXCEPT ![w] = f]
                       /\ published_dedup' = tbl
                       /\ turn' = [turn EXCEPT ![w].inserted =
                                                   IF tbl # published_dedup
                                                   THEN @ \cup {<<ch, f>>} ELSE @]
                       /\ IF reserve_dedup_ok(published_dedup, ch, f)
                          THEN /\ Goto(w, "caps")
                               /\ post_data' = [post_data EXCEPT ![w] = got]
                               /\ UNCHANGED attempt
                          ELSE /\ attempt' = [attempt EXCEPT ![w] = @ + 1]
                               /\ post_data' = [post_data EXCEPT ![w] = NoPost]
                               /\ Goto(w, more)
    /\ UNCHANGED <<now, cfgVars, posts, random_posts, due_rows, cur,
                   last_backfill_time, sent>>

\* lines 352-361: every attempt failed, the slot is committed without a publication;
\* a storage error raises into the except-block of the row
AbsorbExhausted(w) ==
    /\ pc[w] = "absorb"
    /\ \/ /\ posts' = CommitSlot(posts, cur[w], now)
          /\ NextRow(w)
          /\ Ended(w, "exhausted")
       \/ /\ Goto(w, "handler")
          /\ UNCHANGED <<posts, cur, locals, turn>>
    /\ UNCHANGED <<now, cfgVars, published_dedup, random_posts, due_rows,
                   last_backfill_time, sent>>

\* SELECT COUNT(*) FROM published_dedup WHERE channel_id = ? AND published_at >= ? AND published_at <= ?
PublishedTodayCount(tbl, ch, t) ==
    Cardinality({r \in tbl : /\ r.channel_id = ch
                             /\ r.published_at >= DayStart(t)
                             /\ r.published_at <= DayEnd(t)})

\* SELECT MAX(published_at) FROM published_dedup WHERE channel_id = ?
LastPublishedAt(tbl, ch) ==
    LET ts == {r.published_at : r \in {x \in tbl : x.channel_id = ch}}
    IN IF ts = {} THEN NULL ELSE CHOOSE t \in ts : \A u \in ts : u <= t

DailyCapHit(tbl, ch, t) ==
    /\ Config.MAX_POSTS_PER_CHANNEL_PER_DAY > 0
    /\ PublishedTodayCount(tbl, ch, t) >= Config.MAX_POSTS_PER_CHANNEL_PER_DAY

SpacingCapHit(tbl, ch, t) ==
    /\ Config.MIN_SECONDS_BETWEEN_POSTS_PER_CHANNEL > 0
    /\ LastPublishedAt(tbl, ch) # NULL
    /\ t - LastPublishedAt(tbl, ch) < Config.MIN_SECONDS_BETWEEN_POSTS_PER_CHANNEL

\* lines 365-398: the safety caps; any exception inside is swallowed and the
\* publication goes ahead
CheckCaps(w) ==
    /\ pc[w] = "caps"
    /\ LET id == cur[w]
           ch == posts[id].channel_id
           goPublish == /\ Goto(w, "publish")
                        /\ UNCHANGED <<posts, cur, locals, turn>>
       IN IF dedup_table = "missing"
          THEN goPublish
          ELSE IF DailyCapHit(published_dedup, ch, now)
          THEN \/ /\ posts' = CommitSlot(posts, id, now)
                  /\ NextRow(w)
                  /\ Ended(w, "capped")
               \/ goPublish
          ELSE IF SpacingCapHit(published_dedup, ch, now)
          THEN \/ /\ posts' = ReleaseSlot(posts, id)
                  /\ NextRow(w)
                  /\ Ended(w, "deferred")
               \/ goPublish
          ELSE goPublish
    /\ UNCHANGED <<now, cfgVars, published_dedup, random_posts, due_rows,
                   last_backfill_time, sent>>

\* line 401: publish_post_to_channel sends or raises
Publish(w) ==
    /\ pc[w] = "publish"
    /\ \/ /\ BagCardinality(sent) < MaxSent
          /\ sent' = sent (+) SetToBag({[post_id |-> cur[w],
                                          channel_id |-> posts[cur[w]].channel_id,
                                          fingerprint |-> fingerprint[w],
                                          kind |-> "random", day |-> now \div DayLen]})
          /\ Goto(w, "commit")
          /\ turn' = [turn EXCEPT ![w].publish = "ok"]
       \/ /\ Goto(w, "handler")
          /\ turn' = [turn EXCEPT ![w].publish = "failed"]
          /\ UNCHANGED sent
    /\ UNCHANGED <<now, cfgVars, published_dedup, posts, random_posts, due_rows, cur,
                   locals, last_backfill_time>>

\* lines 416-445: commit the slot and refresh the stream. A storage error raises
\* into the except-block: either the first UPDATE (line 416) fails and the slot
\* stays reserved, or a later statement fails and the slot UPDATE, already
\* executed on the connection, is committed by the except-block's own commit
Commit(w) ==
    /\ pc[w] = "commit"
    /\ \/ /\ posts' = CommitSlot(posts, cur[w], now)
          /\ random_posts' = TouchStream(random_posts, posts', posts[cur[w]].random_post_id, now)
          /\ NextRow(w)
          /\ Ended(w, "committed")
       \/ /\ Goto(w, "handler")
          /\ UNCHANGED <<posts, random_posts, cur, locals, turn>>
       \/ /\ posts' = CommitSlot(posts, cur[w], now)
          /\ Goto(w, "handler")
          /\ UNCHANGED <<random_posts, cur, locals, turn>>
    /\ UNCHANGED <<now, cfgVars, published_dedup, due_rows, last_backfill_time, sent>>

\* lines 447-456: except-block, first the slot reservation is taken back
HandlerReleaseSlot(w) ==
    /\ pc[w] = "handler"
    /\ posts' = ReleaseSlot(posts, cur[w])
    /\ Goto(w, "handler2")
    /\ UNCHANGED <<now, cfgVars, published_dedup, random_posts, due_rows, cur, locals,
                   last_backfill_time, sent, turn>>

\* lines 457-466: except-block, then the dedup record of the local fingerprint is deleted
HandlerReleaseDedup(w) ==
    /\ pc[w] = "handler2"
    /\ published_dedup' = IF dedup_table = "missing" THEN published_dedup
                          ELSE release_dedup(published_dedup, posts[cur[w]].channel_id,
                                             fingerprint[w])
    /\ NextRow(w)
    /\ Ended(w, "rolledback")
    /\ UNCHANGED <<now, cfgVars, posts, random_posts, due_rows, last_backfill_time, sent>>

----------------------------------------------------------------------------
\* Backfill pass: _generate_next_day_random_posts_for_db

MinuteOfDay(t) == (t % DayLen) \div SecPerMin

\* lines 1094-1099 (and 1106-1111): last-minute push, then the two clamps
ClampToday(t, dt, jit, offset) ==
    LET pushed == IF MinuteOfDay(dt) = MinPerDay - 1
                  THEN DayStart(t) + DayLen + jit * SecPerMin + offset
                  ELSE dt
        floored == IF pushed < t + MinFutureMinutes * SecPerMin
                   THEN t + MinFutureMinutes * SecPerMin ELSE pushed
    IN IF floored > DayEnd(t) THEN DayEnd(t) ELSE floored

\* SELECT scheduled_time FROM posts WHERE random_post_id = ? AND channel_id = ?
\* AND is_published = 0 AND scheduled_time >= ? AND scheduled_time <= ?, as a set
ExistingTimes(p, sid, ch, lo, hi) ==
    {p[id].scheduled_time : id \in {x \in DOMAIN p : /\ p[x].random_post_id = sid
                                                     /\ p[x].channel_id = ch
                                                     /\ p[x].is_published = 0
                                                     /\ p[x].scheduled_time >= lo
                                                     /\ p[x].scheduled_time <= hi}}

\* the minute offsets the generator may pick: random.sample(range(budget), need),
\* sorted, or the uniform steps int(i * budget / need)
MinutePicks(budget, need) ==
    IF need <= budget
    THEN {OrderById(S) : S \in {T \in SUBSET (0..(budget - 1)) : Cardinality(T) = need}}
    ELSE {[i \in 1..need |-> ((i - 1) * budget) \div need]}

\* lines 1085-1113: the times generated for today's window
TodayTimes(t, need, existing, offset) ==
    LET remaining_minutes == Max(1, Max(0, DayEnd(t) - t) \div SecPerMin)
    IN {SelectSeq([i \in 1..need |->
                      ClampToday(t, t + ms[i] * SecPerMin + secs[i] + offset, jits[i], offset)],
                  LAMBDA dt : dt \notin existing) :
            ms \in MinutePicks(remaining_minutes, need),
            secs \in [1..need -> 0..(SecPerMin - 1)],
            jits \in [1..need -> 0..MaxJitter]}

\* lines 1157-1170: the times generated for tomorrow's window
TomorrowTimes(t, need, existing, offset) ==
    {SelectSeq([i \in 1..need |-> DayStart(t) + DayLen + ms[i] * SecPerMin + secs[i] + offset],
               LAMBDA dt : dt \notin existing) :
        ms \in MinutePicks(MinPerDay, need),
        secs \in [1..need -> 0..(SecPerMin - 1)]}

\* INSERT INTO posts (...) VALUES (...) for each generated time
InsertSlots(p, stream, sid, ch, times) ==
    p \o [i \in 1..Len(times) |->
            [channel_id |-> ch, content_type |-> "random", content |-> <<>>,
             is_published |-> 0, scheduled_time |-> times[i],
             random_post_id |-> sid, donors |-> stream.donors,
             phone_number |-> stream.phone_number,
             is_public_channel |-> stream.is_public_channel]]

\* lines 1057-1195 for one target: today's window, then tomorrow's
BackfillTarget(p, stream, sid, idx, t) ==
    LET ch == stream.targets[idx]
        offset == Max(0, idx - 1) * SecPerMin
        need_today == Max(0, stream.posts_per_day
                             - Cardinality(ExistingTimes(p, sid, ch, DayStart(t), DayEnd(t))))
        afterToday == {InsertSlots(p, stream, sid, ch, ts) :
                          ts \in TodayTimes(t, need_today,
                                            ExistingTimes(p, sid, ch, DayStart(t), DayEnd(t)),
                                            offset)}
    IN UNION {LET existing == ExistingTimes(q, sid, ch, DayStart(t) + DayLen, DayEnd(t) + DayLen)
                  need_tomorrow == Max(0, stream.posts_per_day - Cardinality(existing))
              IN {InsertSlots(q, stream, sid, ch, ts) :
                     ts \in TomorrowTimes(t, need_tomorrow, existing, offset)}
              : q \in afterToday}

RECURSIVE BackfillTargets(_, _, _, _, _)
BackfillTargets(P, stream, sid, idx, t) ==
    IF idx > Len(stream.targets) THEN P
    ELSE BackfillTargets(UNION {BackfillTarget(p, stream, sid, idx, t) : p \in P},
                         stream, sid, idx + 1, t)

\* lines 1043-1048: only active streams with donors and targets are filled
RECURSIVE BackfillStreams(_, _, _, _)
BackfillStreams(P, rp, sid, t) ==
    IF sid > Len(rp) THEN P
    ELSE IF rp[sid].is_active # 1 \/ rp[sid].donors = {} \/ rp[sid].targets = <<>>
    THEN BackfillStreams(P, rp, sid + 1, t)
    ELSE BackfillStreams(BackfillTargets(P, rp[sid], sid, 1, t), rp, sid + 1, t)

\* lines 1197-1216: next_post_times_json of every stream that was filled
RefreshStreams(rp, p, t) ==
    [sid \in DOMAIN rp |->
        IF rp[sid].is_active # 1 \/ rp[sid].donors = {} \/ rp[sid].targets = <<>>
        THEN rp[sid]
        ELSE [rp[sid] EXCEPT !.next_post_times = UnionTimes(p, sid, t)]]

\* scheduler_loop lines 110-114 and 122-128: at start, then at most every 15 minutes
BackfillDue(w) ==
    \/ pc[w] = "start"
    \/ /\ pc[w] = "maintain"
       /\ \/ last_backfill_time[w] = NULL
          \/ now - last_backfill_time[w] >= BackfillEvery

BackfillUpTo(w, cap) ==
    /\ BackfillDue(w)
    /\ \E p \in BackfillStreams({posts}, random_posts, 1, now) :
          /\ Len(p) <= cap
          /\ posts' = p
          /\ random_posts' = RefreshStreams(random_posts, p, now)
    /\ last_backfill_time' = [last_backfill_time EXCEPT ![w] = now]
    /\ Goto(w, "scheduled")
    /\ UNCHANGED <<now, cfgVars, published_dedup, due_rows, cur, locals, sent, turn>>

Backfill(w) == BackfillUpTo(w, MaxPosts)

SkipBackfill(w) ==
    /\ pc[w] = "maintain"
    /\ ~BackfillDue(w)
    /\ Goto(w, "scheduled")
    /\ UNCHANGED <<now, cfgVars, published_dedup, posts, random_posts, due_rows, cur,
                   locals, last_backfill_time, sent, turn>>

----------------------------------------------------------------------------
\* Repost pass: check_repost_streams, check_donor_channel

\* donor messages: a service message has no content; body is the text or caption
Service == [kind |-> "service", body |-> <<>>]
RText == [kind |-> "text", body |-> <<"hi">>]
RTextLink == [kind |-> "text", body |-> <<"hi", " ", "@donor">>]
RPhoto == [kind |-> "photo", body |-> <<"hi">>]
DonorMessages == {Service, RText, RTextLink, RPhoto}

\* utils.clean_telegram_links: t.me links and @username tokens are removed
TelegramLinks == {"@donor", "t.me/donor"}
clean_telegram_links(text) == SelectSeq(text, LAMBDA tok : tok \notin TelegramLinks)

\* the dict check_donor_channel fingerprints: type, cleaned caption or text, no media
RepostData(msg) ==
    [type |-> msg.kind,
     caption |-> IF msg.kind = "text" THEN <<>> ELSE clean_telegram_links(msg.body),
     text |-> IF msg.kind = "text" THEN clean_telegram_links(msg.body) ELSE <<>>,
     media |-> "none"]

\* get_chat_history(limit=1) misread as the oldest message of the donor
Tip_AsOldest(chat) == IF chat = <<>> THEN 0 ELSE 1

\* get_chat_history(limit=1): the id of the newest message, 0 when there is none
Tip(chat) == Len(chat)

\* get_chat_history(limit=50) down to the first id <= last: the content messages
NewIds(chat, last) ==
    {i \in DOMAIN chat : /\ i > last
                         /\ i > Len(chat) - HistoryLimit
                         /\ chat[i].kind # "service"}

MaxOf(S) == IF S = {} THEN 0 ELSE CHOOSE x \in S : \A y \in S : y <= x

\* for message in reversed(new_messages): for target_channel in target_channels
RECURSIVE RepostOrder(_, _)
RepostOrder(ids, targets) ==
    IF ids = <<>> THEN <<>>
    ELSE [t \in 1..Len(targets) |-> <<Head(ids), targets[t]>>]
         \o RepostOrder(Tail(ids), targets)

\* an UPDATE of last_message_id that is not guarded by "if new_messages"
AdvanceTo_AsAlways(stored, newest) == newest

\* lines 988-997: last_message_id is written only when new messages were found
AdvanceTo(stored, newest) == IF newest # 0 THEN newest ELSE stored

SetLastSeen(rs, sid, v) == [rs EXCEPT ![sid].last_message_id = v]

RepostLocalsReset(w) ==
    /\ last_message_id' = [last_message_id EXCEPT ![w] = 0]
    /\ new_messages' = [new_messages EXCEPT ![w] = <<>>]
    /\ max_id' = [max_id EXCEPT ![w] = 0]

\* what the repost pass leaves alone
repostFrame == <<now, horizon, Config, dedup_table, gateVars, tenantVars, posts, random_posts, due_rows, cur,
                 locals, last_backfill_time, periodicVars, poolVars>>

\* the donor publishes a message
DonorPosts ==
    /\ Len(donor_chat) < MaxMsgs
    /\ \E m \in DonorMessages : donor_chat' = Append(donor_chat, m)
    /\ UNCHANGED <<repostFrame, published_dedup, pc, sent, turn, repost_streams, polled,
                   last_message_id, new_messages, max_id>>

\* database.update_post_donor for a repost stream, between two polls: only
\* donor_channel is written; the new donor has a history of its own
update_post_donor(new_donor) ==
    /\ repost_streams[1].donor # new_donor
    /\ \A w \in Workers : pc[w] \in {"repost", "stopped"}
    /\ repost_streams' = [repost_streams EXCEPT ![1].donor = new_donor]
    /\ \E n \in 0..MaxMsgs : donor_chat' = [i \in 1..n |-> RText]
    /\ UNCHANGED <<repostFrame, published_dedup, pc, sent, turn, polled, last_message_id,
                   new_messages, max_id>>

\* lines 681-718: the active stream row is read
StartRepostPass(w) ==
    /\ pc[w] = "repost"
    /\ repost_streams[1].is_active = 1
    /\ last_message_id' = [last_message_id EXCEPT ![w] = repost_streams[1].last_message_id]
    /\ Goto(w, "rp_poll")
    /\ turn' = [turn EXCEPT ![w] = NewTurn]
    /\ UNCHANGED <<repostFrame, published_dedup, sent, repost_streams, donor_chat,
                   new_messages, max_id, polled>>

\* lines 748-766: no last_message_id yet, the stream is baselined to the tip
Baseline(w) ==
    /\ pc[w] = "rp_poll"
    /\ last_message_id[w] = 0
    /\ Tip(donor_chat) # 0
    /\ repost_streams' = SetLastSeen(repost_streams, 1, Tip(donor_chat))
    /\ Goto(w, "repost")
    /\ Ended(w, "baselined")
    /\ RepostLocalsReset(w)
    /\ polled' = polled \cup {repost_streams[1].donor}
    /\ UNCHANGED <<repostFrame, published_dedup, sent, donor_chat>>

\* the donor has no message, its history cannot be read, or the UPDATE raises
BaselineFailed(w) ==
    /\ pc[w] = "rp_poll"
    /\ last_message_id[w] = 0
    /\ Goto(w, "repost")
    /\ Ended(w, "failed")
    /\ RepostLocalsReset(w)
    /\ UNCHANGED <<repostFrame, published_dedup, sent, repost_streams, donor_chat, polled>>

\* lines 767-775: collect the new content messages; a fetch error ends the poll
FetchNew(w) ==
    /\ pc[w] = "rp_poll"
    /\ last_message_id[w] # 0
    /\ \/ LET ids == NewIds(donor_chat, last_message_id[w])
          IN /\ new_messages' = [new_messages EXCEPT ![w] =
                                    RepostOrder(OrderById(ids), repost_streams[1].targets)]
             /\ max_id' = [max_id EXCEPT ![w] = MaxOf(ids)]
             /\ Goto(w, "rp_publish")
             /\ UNCHANGED <<turn, last_message_id>>
       \/ /\ Goto(w, "repost")
          /\ Ended(w, "failed")
          /\ RepostLocalsReset(w)
    /\ UNCHANGED <<repostFrame, published_dedup, sent, repost_streams, donor_chat, polled>>

\* lines 778-984 for one message and one target: fingerprint, dedup reservation,
\* then the send, whose error (download or bot API) is logged
RepostOne(w) ==
    /\ pc[w] = "rp_publish"
    /\ new_messages[w] # <<>>
    /\ LET id == Head(new_messages[w])[1]
           ch == Head(new_messages[w])[2]
           f == make_post_fingerprint(RepostData(donor_chat[id]))
       IN /\ new_messages' = [new_messages EXCEPT ![w] = Tail(@)]
          /\ published_dedup' = reserve_dedup_rows(published_dedup, ch, f, now)
          /\ IF reserve_dedup_ok(published_dedup, ch, f)
             THEN \/ /\ BagCardinality(sent) < MaxSent
                     /\ sent' = sent (+) SetToBag({[post_id |-> id, channel_id |-> ch,
                                                     fingerprint |-> f, kind |-> "repost",
                                                     day |-> now \div DayLen]})
                     /\ UNCHANGED turn
                  \/ /\ turn' = [turn EXCEPT ![w].publish = "failed"]
                     /\ UNCHANGED sent
             ELSE UNCHANGED <<sent, turn>>
    /\ UNCHANGED <<repostFrame, pc, repost_streams, donor_chat, last_message_id, max_id,
                   polled>>

\* lines 986-997: the stream's last_message_id is moved to the newest new id;
\* a storage error is logged by the outer except
AdvanceLastSeen(w) ==
    /\ pc[w] = "rp_publish"
    /\ new_messages[w] = <<>>
    /\ \/ /\ repost_streams' = SetLastSeen(repost_streams, 1,
                                  AdvanceTo(repost_streams[1].last_message_id, max_id[w]))
          /\ Ended(w, "advanced")
       \/ /\ max_id[w] # 0
          /\ Ended(w, "failed")
          /\ UNCHANGED repost_streams
    /\ Goto(w, "repost")
    /\ RepostLocalsReset(w)
    /\ polled' = polled \cup {repost_streams[1].donor}
    /\ UNCHANGED <<repostFrame, published_dedup, sent, donor_chat>>

----------------------------------------------------------------------------
\* Periodic pass: check_periodic_posts

\* lines 222-230: never published, or published at least 6 hours ago
ShouldPublish(row, t) ==
    \/ row.last_post_time = NULL
    \/ t - row.last_post_time >= PeriodLen

\* the finally of publish_post_to_channel (lines 659-667): an in-memory buffer
\* is closed after the send, whether it succeeded or not
CloseMedia(pd) == IF pd.media = "none" THEN pd ELSE [pd EXCEPT !.media = "closed"]

\* lines 194-205: the active rows, and the time of the pass
StartPeriodicPass(w) ==
    /\ pc[w] = "periodic"
    /\ due_rows' = [due_rows EXCEPT ![w] =
                       OrderById({id \in DOMAIN periodic_posts : periodic_posts[id].is_active = 1})]
    /\ current_time' = [current_time EXCEPT ![w] = now]
    /\ Goto(w, "pp_row")
    /\ UNCHANGED <<now, horizon, Config, dedup_table, gateVars, tenantVars, repostVars, polled, poolVars,
                   periodic_posts, target_channels, published_dedup, posts, random_posts,
                   cur, locals, last_backfill_time, sent, turn>>

\* lines 207-236 and 259-260: a row without targets or not yet due is passed
\* over; for a due row a candidate is fetched from the donor, None is logged
PeriodicRow(w) ==
    /\ pc[w] = "pp_row"
    /\ due_rows[w] # <<>>
    /\ due_rows' = [due_rows EXCEPT ![w] = Tail(@)]
    /\ LET id == Head(due_rows[w])
           row == periodic_posts[id]
       IN IF row.target_channels = <<>> \/ ~ShouldPublish(row, current_time[w])
          THEN UNCHANGED <<pc, cur, post_data, target_channels, turn>>
          ELSE \E got \in DonorHistory[row.donor_channel] \cup {NoPost} :
                  IF got = NoPost
                  THEN UNCHANGED <<pc, cur, post_data, target_channels, turn>>
                  ELSE /\ Goto(w, "pp_targets")
                       /\ cur' = [cur EXCEPT ![w] = id]
                       /\ post_data' = [post_data EXCEPT ![w] = got]
                       /\ target_channels' = [target_channels EXCEPT ![w] = row.target_channels]
                       /\ turn' = [turn EXCEPT ![w] = [NewTurn EXCEPT !.slot = id]]
    /\ UNCHANGED <<now, horizon, Config, dedup_table, gateVars, tenantVars, repostVars, polled, poolVars,
                   periodic_posts, current_time, published_dedup, posts, random_posts,
                   attempt, fingerprint, last_backfill_time, sent>>

\* lines 237-252 for one target: fingerprint of post_data as it is now, dedup
\* reservation, then publish_post_to_channel, whose error is logged. A closed
\* buffer cannot be sent: getvalue() raises at line 584 and the send is given
\* the BytesIO itself
PeriodicOne(w) ==
    /\ pc[w] = "pp_targets"
    /\ target_channels[w] # <<>>
    /\ LET ch == Head(target_channels[w])
           f == make_post_fingerprint(post_data[w])
           tbl == reserve_dedup_rows(published_dedup, ch, f, now)
       IN /\ target_channels' = [target_channels EXCEPT ![w] = Tail(@)]
          /\ fingerprint' = [fingerprint EXCEPT ![w] = f]
          /\ published_dedup' = tbl
          /\ IF reserve_dedup_ok(published_dedup, ch, f)
             THEN /\ post_data' = [post_data EXCEPT ![w] = CloseMedia(@)]
                  /\ IF post_data[w].media = "closed"
                     THEN /\ turn' = [turn EXCEPT ![w].inserted = @ \cup {<<ch, f>>}]
                          /\ UNCHANGED sent
                     ELSE \/ /\ BagCardinality(sent) < MaxPeriodicSent
                             /\ sent' = sent (+) SetToBag({[post_id |-> cur[w], channel_id |-> ch,
                                                             fingerprint |-> f, kind |-> "periodic",
                                                             day |-> now \div DayLen]})
                             /\ turn' = [turn EXCEPT ![w].inserted = @ \cup {<<ch, f>>}]
                          \/ /\ turn' = [turn EXCEPT ![w].inserted = @ \cup {<<ch, f>>},
                                                     ![w].publish = "failed"]
                             /\ UNCHANGED sent
             ELSE UNCHANGED <<post_data, sent, turn>>
    /\ UNCHANGED <<now, horizon, Config, dedup_table, gateVars, tenantVars, repostVars, polled, poolVars,
                   periodic_posts, current_time, posts, random_posts, pc, due_rows, cur,
                   attempt, last_backfill_time>>

\* lines 253-257: after the last target the row's last_post_time is written
PeriodicUpdate(w) ==
    /\ pc[w] = "pp_targets"
    /\ target_channels[w] = <<>>
    /\ periodic_posts' = [periodic_posts EXCEPT ![cur[w]].last_post_time = current_time[w]]
    /\ Ended(w, "updated")
    /\ Goto(w, "pp_row")
    /\ cur' = [cur EXCEPT ![w] = 0]
    /\ post_data' = [post_data EXCEPT ![w] = NoPost]
    /\ fingerprint' = [fingerprint EXCEPT ![w] = NoFingerprint]
    /\ UNCHANGED <<now, horizon, Config, dedup_table, gateVars, tenantVars, repostVars, polled, poolVars,
                   target_channels, current_time, published_dedup, posts, random_posts,
                   due_rows, attempt, last_backfill_time, sent>>

\* the pass has visited every row; the loop comes round again
EndPeriodicPass(w) ==
    /\ pc[w] = "pp_row"
    /\ due_rows[w] = <<>>
    /\ Goto(w, "periodic")
    /\ UNCHANGED <<now, cfgVars, published_dedup, posts, random_posts, due_rows, cur,
                   locals, last_backfill_time, sent, turn>>

----------------------------------------------------------------------------
\* Reader sessions: the scheduler's _client_cache and the login flow's
\* active_clients. A client is "connected" or "disconnected"; "none" is no entry

\* _get_client, lines 63-74: the cached client whatever its state; else a new
\* client is constructed and the caller is suspended in client.start()
get_client(w, s) ==
    /\ pc[w] # "stopped"
    /\ ~client[w].awaiting
    /\ client' = [client EXCEPT ![w] =
                     IF client_cache[s] # "none"
                     THEN [session |-> s, started |-> FALSE,
                           is_connected |-> client_cache[s] = "connected", awaiting |-> FALSE]
                     ELSE [session |-> s, started |-> FALSE, is_connected |-> FALSE,
                           awaiting |-> TRUE]]
    /\ UNCHANGED <<now, horizon, Config, dedup_table, gateVars, tenantVars, repostVars, polled, periodicVars,
                   client_cache, active_clients, starts, published_dedup, posts,
                   random_posts, pc, due_rows, cur, locals, last_backfill_time, sent, turn>>

\* _get_client, lines 75-77: start() returns and the client is cached; when
\* start() raises nothing is cached
client_start(w) ==
    /\ client[w].awaiting
    /\ LET s == client[w].session
       IN \/ /\ client_cache' = [client_cache EXCEPT ![s] = "connected"]
             /\ starts' = [starts EXCEPT ![s] = @ + 1]
             /\ client' = [client EXCEPT ![w] = [session |-> s, started |-> TRUE,
                                                 is_connected |-> TRUE, awaiting |-> FALSE]]
          \/ /\ client' = [client EXCEPT ![w] = NoClient]
             /\ UNCHANGED <<client_cache, starts>>
    /\ UNCHANGED <<now, horizon, Config, dedup_table, gateVars, tenantVars, repostVars, polled, periodicVars,
                   active_clients, published_dedup, posts, random_posts, pc, due_rows, cur,
                   locals, last_backfill_time, sent, turn>>

\* _stop_all_clients (lines 79-85): every cached client is stopped, the cache cleared
stop_all_clients(w) ==
    /\ client_cache' = [s \in Sessions |-> "none"]
    /\ client' = [client EXCEPT ![w] = NoClient]
    /\ starts' = [s \in Sessions |-> 0]

\* the connection of a client of either registry is lost
ConnectionLost ==
    /\ \/ /\ \E s \in Sessions : /\ client_cache[s] = "connected"
                                 /\ client_cache' = [client_cache EXCEPT ![s] = "disconnected"]
          /\ UNCHANGED active_clients
       \/ /\ \E u \in Users : /\ active_clients[u] = "connected"
                              /\ active_clients' = [active_clients EXCEPT ![u] = "disconnected"]
          /\ UNCHANGED client_cache
    /\ UNCHANGED <<now, horizon, Config, dedup_table, gateVars, tenantVars, repostVars, polled, periodicVars,
                   client, starts, published_dedup, posts, random_posts, pc, due_rows, cur,
                   locals,
                   last_backfill_time, sent, turn>>

\* auth_handler.process_phone (lines 33-79): the user's previous client is
\* dropped, a new one is registered and connected; on an error it is removed
process_phone(u) ==
    /\ \E c \in {"connected", "none"} : active_clients' = [active_clients EXCEPT ![u] = c]
    /\ UNCHANGED <<now, horizon, Config, dedup_table, gateVars, tenantVars, repostVars, polled, periodicVars,
                   client_cache, client, starts, published_dedup, posts, random_posts, pc,
                   due_rows,
                   cur, locals, last_backfill_time, sent, turn>>

\* auth_handler.process_code (lines 88, 127-130): the login ends, the client is
\* disconnected and its entry deleted
process_code(u) ==
    /\ active_clients[u] # "none"
    /\ active_clients' = [active_clients EXCEPT ![u] = "none"]
    /\ UNCHANGED <<now, horizon, Config, dedup_table, gateVars, tenantVars, repostVars, polled, periodicVars,
                   client_cache, client, starts, published_dedup, posts, random_posts, pc,
                   due_rows,
                   cur, locals, last_backfill_time, sent, turn>>

\* auth_handler.cleanup_inactive_clients (lines 268-277): the entries of
\* active_clients whose client is not connected are deleted
cleanup_inactive_clients ==
    /\ active_clients' = [u \in Users |-> IF active_clients[u] = "disconnected"
                                          THEN "none" ELSE active_clients[u]]
    /\ UNCHANGED <<now, horizon, Config, dedup_table, gateVars, tenantVars, repostVars, polled, periodicVars,
                   client_cache, client, starts, published_dedup, posts, random_posts, pc,
                   due_rows,
                   cur, locals, last_backfill_time, sent, turn>>

----------------------------------------------------------------------------
\* Credentials of the repost pass: check_repost_streams, lines 671-709

\* the session string the stream is polled with, "" when it is not polled
PollSession(main, stream, accounts) ==
    IF main = "" THEN ""
    ELSE IF stream.is_public_channel = 1 \/ stream.phone_number = "" THEN main
    ELSE IF accounts[stream.phone_number] = "none" THEN ""
    ELSE accounts[stream.phone_number]

\* lines 713-716 and 733: the stream is handed to check_donor_channel, which
\* asks for the client of the resolved session
RepostRequest(w) ==
    /\ pc[w] = "repost"
    /\ repost_streams[1].is_active = 1
    /\ PollSession(session_string, repost_streams[1], linked_accounts) # ""
    /\ get_client(w, PollSession(session_string, repost_streams[1], linked_accounts))

----------------------------------------------------------------------------
\* The publisher gate: publish_post_to_channel under the semaphore, called by
\* the passes of the tick loop, and _publish_random_to_target_with_jitter, which
\* takes the lock of its channel first. A task inside the publisher is at
\* "in_publish" and target_channels holds the channel of the call

PublishSlots == 5

InPublish(w) == pc[w] = "in_publish"

SemaphoreFree == Cardinality({w \in Workers : InPublish(w)}) < PublishSlots

\* a payload whose type no branch of publish_post_to_channel handles
M4 == [type |-> "animation", caption |-> <<>>, text |-> <<>>, media |-> "m1"]

\* lines 576-667: what a call of the publisher can do with payload pd: "ok" (one
\* message sent), "failed" (the send raised, the error is re-raised), "returned"
\* (no branch of the if-chain matched: nothing is sent and the call returns)
PublishOutcomes(pd) ==
    IF pd.type \notin OneShotKinds THEN {"returned"}
    ELSE IF pd.media = "closed" THEN {"failed"}
    ELSE {"ok", "failed"}

\* lines 570-572: a caller hands the publisher a payload for channel ch
DirectPublish(w, ch) ==
    /\ pc[w] = "gate"
    /\ SemaphoreFree
    /\ Goto(w, "in_publish")
    /\ target_channels' = [target_channels EXCEPT ![w] = <<ch>>]
    /\ \E pd \in {M1, M3, M4} :
          /\ post_data' = [post_data EXCEPT ![w] = pd]
          /\ fingerprint' = [fingerprint EXCEPT ![w] = make_post_fingerprint(pd)]
    /\ UNCHANGED <<now, horizon, Config, dedup_table, gateVars, tenantVars, repostVars, polled, poolVars,
                   periodic_posts, current_time, published_dedup, posts, random_posts,
                   due_rows, cur, attempt, last_backfill_time, sent, turn>>

\* lines 1227-1250: the channel has a pending random slot that is not more than
\* 120 seconds ahead
AdhocAllowed(p, ch, t) ==
    LET pending == {id \in DOMAIN p : /\ p[id].channel_id = ch
                                      /\ p[id].content_type = "random"
                                      /\ p[id].is_published = 0}
    IN /\ pending # {}
       /\ \E id \in pending : /\ \A o \in pending : p[id].scheduled_time <= p[o].scheduled_time
                              /\ p[id].scheduled_time <= t + 2 * SecPerMin

\* lines 1226-1259: the guard, then a candidate of a donor and its fingerprint
JitterFetch(w, ch) ==
    /\ pc[w] = "gate"
    /\ AdhocAllowed(posts, ch, now)
    /\ \E donor \in DOMAIN DonorHistory : \E got \in DonorHistory[donor] :
          /\ post_data' = [post_data EXCEPT ![w] = got]
          /\ fingerprint' = [fingerprint EXCEPT ![w] = make_post_fingerprint(got)]
    /\ target_channels' = [target_channels EXCEPT ![w] = <<ch>>]
    /\ Goto(w, "j_lock")
    /\ UNCHANGED <<now, horizon, Config, dedup_table, gateVars, tenantVars, repostVars, polled, poolVars,
                   periodic_posts, current_time, published_dedup, posts, random_posts,
                   due_rows, cur, attempt, last_backfill_time, sent, turn>>

\* lines 1262-1267: the lock of the channel is created if need be and acquired
JitterLock(w) ==
    /\ pc[w] = "j_lock"
    /\ channel_locks[Head(target_channels[w])] = "free"
    /\ channel_locks' = [channel_locks EXCEPT ![Head(target_channels[w])] = w]
    /\ Goto(w, "j_reserve")
    /\ UNCHANGED <<now, horizon, Config, dedup_table, credVars, tenantVars, repostVars, polled,
                   poolVars, periodicVars, published_dedup, posts, random_posts, due_rows,
                   cur, locals, last_backfill_time, sent, turn>>

\* lines 1268-1278: under the lock, the dedup reservation; a duplicate ends the
\* task, otherwise the publisher is entered when the semaphore admits it
JitterReserve(w) ==
    /\ pc[w] = "j_reserve"
    /\ LET ch == Head(target_channels[w])
       IN /\ published_dedup' = reserve_dedup_rows(published_dedup, ch, fingerprint[w], now)
          /\ IF reserve_dedup_ok(published_dedup, ch, fingerprint[w])
             THEN /\ Goto(w, "j_publish")
                  /\ UNCHANGED <<channel_locks, target_channels, locals>>
             ELSE /\ Goto(w, "gate")
                  /\ channel_locks' = [channel_locks EXCEPT ![ch] = "free"]
                  /\ target_channels' = [target_channels EXCEPT ![w] = <<>>]
                  /\ post_data' = [post_data EXCEPT ![w] = NoPost]
                  /\ fingerprint' = [fingerprint EXCEPT ![w] = NoFingerprint]
                  /\ UNCHANGED attempt
    /\ UNCHANGED <<now, horizon, Config, dedup_table, credVars, tenantVars, repostVars, polled,
                   poolVars, periodic_posts, current_time, posts, random_posts, due_rows,
                   cur, last_backfill_time, sent, turn>>

JitterPublish(w) ==
    /\ pc[w] = "j_publish"
    /\ SemaphoreFree
    /\ Goto(w, "in_publish")
    /\ UNCHANGED <<now, cfgVars, published_dedup, posts, random_posts, due_rows, cur,
                   locals, last_backfill_time, sent, turn>>

\* the publisher returns or raises; a lock the task holds is released on the
\* way out of its async with
PublishReturns(w) ==
    /\ InPublish(w)
    /\ LET ch == Head(target_channels[w])
       IN \E out \in PublishOutcomes(post_data[w]) :
             /\ turn' = [turn EXCEPT ![w].publish = out]
             /\ IF out = "ok"
                THEN /\ BagCardinality(sent) < MaxSent
                     /\ sent' = sent (+) SetToBag({[post_id |-> 0, channel_id |-> ch,
                                                     fingerprint |-> fingerprint[w],
                                                     kind |-> "adhoc", day |-> now \div DayLen]})
                ELSE UNCHANGED sent
    /\ channel_locks' = [ch \in Channels |-> IF channel_locks[ch] = w THEN "free"
                                             ELSE channel_locks[ch]]
    /\ Goto(w, "gate")
    /\ target_channels' = [target_channels EXCEPT ![w] = <<>>]
    /\ post_data' = [post_data EXCEPT ![w] = NoPost]
    /\ fingerprint' = [fingerprint EXCEPT ![w] = NoFingerprint]
    /\ UNCHANGED <<now, horizon, Config, dedup_table, credVars, tenantVars, repostVars, polled,
                   poolVars, periodic_posts, current_time, published_dedup, posts,
                   random_posts, due_rows, cur, attempt, last_backfill_time>>

----------------------------------------------------------------------------
\* The clock, and stop(): task.cancel() raises CancelledError at the await the
\* loop is suspended in; it is not an Exception, so no except-block runs

Tick ==
    /\ now < horizon
    /\ now' = now + 1
    /\ UNCHANGED <<cfgVars, published_dedup, posts, random_posts, pc, due_rows, cur,
                   locals, last_backfill_time, sent, turn>>

Stop(w) ==
    /\ pc[w] # "stopped"
    /\ Goto(w, "stopped")
    /\ due_rows' = [due_rows EXCEPT ![w] = <<>>]
    /\ cur' = [cur EXCEPT ![w] = 0]
    /\ attempt' = [attempt EXCEPT ![w] = 0]
    /\ post_data' = [post_data EXCEPT ![w] = NoPost]
    /\ fingerprint' = [fingerprint EXCEPT ![w] = NoFingerprint]
    /\ turn' = [turn EXCEPT ![w] = NewTurn]
    /\ last_backfill_time' = [last_backfill_time EXCEPT ![w] = NULL]
    /\ stop_all_clients(w)
    /\ UNCHANGED <<now, horizon, Config, dedup_table, gateVars, tenantVars, repostVars, polled, periodicVars,
                   active_clients, published_dedup, posts, random_posts, sent>>

\* stop() followed by start() on the same scheduler: the loop task is cancelled
\* and a new one runs scheduler_loop from its top; _last_backfill_time is an
\* attribute of the scheduler and is kept
Restart(w) ==
    /\ pc[w] # "stopped"
    /\ Goto(w, "start")
    /\ due_rows' = [due_rows EXCEPT ![w] = <<>>]
    /\ cur' = [cur EXCEPT ![w] = 0]
    /\ attempt' = [attempt EXCEPT ![w] = 0]
    /\ post_data' = [post_data EXCEPT ![w] = NoPost]
    /\ fingerprint' = [fingerprint EXCEPT ![w] = NoFingerprint]
    /\ turn' = [turn EXCEPT ![w] = NewTurn]
    /\ stop_all_clients(w)
    /\ UNCHANGED <<now, horizon, Config, dedup_table, gateVars, tenantVars, repostVars, polled, periodicVars,
                   active_clients, published_dedup, posts, random_posts,
                   last_backfill_time, sent>>

----------------------------------------------------------------------------
\* Initial states

RandomSlot(ch, donors, at) ==
    [channel_id |-> ch, content_type |-> "random", content |-> <<>>, is_published |-> 0,
     scheduled_time |-> at, random_post_id |-> 1,
     donors |-> donors, phone_number |-> "", is_public_channel |-> 1]

OneShotSlot(ch, kind, content, at) ==
    [channel_id |-> ch, content_type |-> kind, content |-> content, is_published |-> 0,
     scheduled_time |-> at, random_post_id |-> NULL,
     donors |-> {}, phone_number |-> "", is_public_channel |-> 0]

Stream(active, perDay) ==
    [donors |-> {"@a"}, targets |-> <<100>>, posts_per_day |-> perDay,
     is_active |-> active, last_post_time |-> NULL, next_post_times |-> <<>>,
     phone_number |-> "", is_public_channel |-> 1]

OneShots ==
    {OneShotSlot(100, "text", <<"hello">>, 0),
     OneShotSlot(100, "repost", <<"", "-100", "5">>, 0)}

\* stores the program can be started on: a slot left by an earlier run (possibly
\* with a repaired, empty donors list) or a manual one-shot
RaceStores ==
    {<<RandomSlot(100, {"@a"}, 0)>>, <<RandomSlot(100, {}, 0)>>}
    \cup {<<o>> : o \in OneShots}

\* two due random slots, for one channel or for two
CapStores ==
    {<<RandomSlot(100, {"@b"}, 0), RandomSlot(ch, d, 0)>> :
         ch \in Channels, d \in {{}, {"@b"}}}
    \cup {<<o>> : o \in OneShots}

Tables == {create_user_database, migrate_published_dedup_table(create_user_database)}

Caps == [MAX_POSTS_PER_CHANNEL_PER_DAY : 0..MaxCap,
         MIN_SECONDS_BETWEEN_POSTS_PER_CHANNEL : 0..MaxSpacing]

\* config.py lines 35 and 37: both caps are off unless the environment sets them
DefaultCaps == [MAX_POSTS_PER_CHANNEL_PER_DAY |-> 0,
                MIN_SECONDS_BETWEEN_POSTS_PER_CHANNEL |-> 0]


\* no donor polled, no periodic stream, no client constructed
\* one tenant database, the pass over the databases not running
TenantsIdle ==
    /\ db_files = [w \in Workers |-> <<>>]
    /\ tenants = [db \in {} |-> <<>>]
    /\ visited = [w \in Workers |-> {}]

ExtrasIdle ==
    /\ polled = {}
    /\ periodic_posts = <<>>
    /\ target_channels = [w \in Workers |-> <<>>]
    /\ current_time = [w \in Workers |-> 0]
    /\ client_cache = [s \in Sessions |-> "none"]
    /\ active_clients = [u \in Users |-> "none"]
    /\ client = [w \in Workers |-> NoClient]
    /\ starts = [s \in Sessions |-> 0]
    /\ channel_locks = [ch \in Channels |-> "free"]
    /\ session_string = "s1"
    /\ linked_accounts = [ph \in Phones |-> "none"]
    /\ TenantsIdle

InitWith(running, caps, tables, stores, streams, hz) ==
    /\ now = 0
    /\ horizon = hz
    /\ Config \in caps
    /\ dedup_table \in tables
    /\ published_dedup = {}
    /\ posts \in stores
    /\ random_posts \in streams
    /\ pc = [w \in Workers |-> IF w \in running THEN "start" ELSE "stopped"]
    /\ due_rows = [w \in Workers |-> <<>>]
    /\ cur = [w \in Workers |-> 0]
    /\ attempt = [w \in Workers |-> 0]
    /\ post_data = [w \in Workers |-> NoPost]
    /\ fingerprint = [w \in Workers |-> NoFingerprint]
    /\ last_backfill_time = [w \in Workers |-> NULL]
    /\ sent = EmptyBag
    /\ turn = [w \in Workers |-> NewTurn]
    /\ repost_streams = <<>>
    /\ donor_chat = <<>>
    /\ last_message_id = [w \in Workers |-> 0]
    /\ new_messages = [w \in Workers |-> <<>>]
    /\ max_id = [w \in Workers |-> 0]
    /\ ExtrasIdle

\* two tick loops on one store, the stream paused, the caps at their defaults
Init == InitWith(Workers, {DefaultCaps}, Tables, RaceStores, {<<Stream(0, 1)>>}, MaxTime)

\* one tick loop, the caps set
InitCaps == InitWith({"w1"}, Caps, Tables, CapStores, {<<Stream(0, 1)>>}, MaxTime)

\* one tick loop, the stream active, the clock followed into the next day
InitBackfill ==
    InitWith({"w1"}, {DefaultCaps}, {migrate_published_dedup_table(create_user_database)},
             {<<>>} \cup {<<o>> : o \in OneShots} \cup {<<RandomSlot(100, {}, 0)>>},
             {<<Stream(1, k)>> : k \in 1..MaxPerDay}, DayLen)

\* one-shot slots of every content kind, and a repost slot whose content is not
\* "_<channel>_<message>"
AllOneShots ==
    {OneShotSlot(100, k, <<"hello">>, 0) : k \in OneShotKinds}
    \cup {OneShotSlot(100, "repost", c, 0) : c \in {<<"", "-100", "5">>, <<"", "-100">>}}

\* one tick loop on a store of one or two due one-shot slots
InitOneShot ==
    InitWith({"w1"}, {DefaultCaps}, {migrate_published_dedup_table(create_user_database)},
             {<<o>> : o \in AllOneShots} \cup {<<o, p>> : o, p \in AllOneShots},
             {<<Stream(0, 1)>>}, 0)

\* two tasks that ask the scheduler for reader sessions (the tick loop and
\* another caller of the fetcher), an empty store, no reader session yet
InitPool == InitWith(Workers, {DefaultCaps}, {migrate_published_dedup_table(create_user_database)},
                     {<<>>}, {<<Stream(0, 1)>>}, 0)

\* two tasks before their next publication; each channel has a pending random slot
InitGate ==
    /\ now = 0
    /\ horizon = 0
    /\ Config = DefaultCaps
    /\ dedup_table = migrate_published_dedup_table(create_user_database)
    /\ published_dedup = {}
    /\ posts = <<RandomSlot(100, {"@a"}, 0), RandomSlot(200, {"@a"}, 0)>>
    /\ random_posts = <<>>
    /\ pc = [w \in Workers |-> "gate"]
    /\ due_rows = [w \in Workers |-> <<>>]
    /\ cur = [w \in Workers |-> 0]
    /\ attempt = [w \in Workers |-> 0]
    /\ post_data = [w \in Workers |-> NoPost]
    /\ fingerprint = [w \in Workers |-> NoFingerprint]
    /\ last_backfill_time = [w \in Workers |-> NULL]
    /\ sent = EmptyBag
    /\ turn = [w \in Workers |-> NewTurn]
    /\ repost_streams = <<>>
    /\ donor_chat = <<>>
    /\ last_message_id = [w \in Workers |-> 0]
    /\ new_messages = [w \in Workers |-> <<>>]
    /\ max_id = [w \in Workers |-> 0]
    /\ polled = {}
    /\ periodic_posts = <<>>
    /\ target_channels = [w \in Workers |-> <<>>]
    /\ current_time = [w \in Workers |-> 0]
    /\ client_cache = [s \in Sessions |-> "none"]
    /\ active_clients = [u \in Users |-> "none"]
    /\ client = [w \in Workers |-> NoClient]
    /\ starts = [s \in Sessions |-> 0]
    /\ channel_locks = [ch \in Channels |-> "free"]
    /\ session_string = "s1"
    /\ linked_accounts = [ph \in Phones |-> "none"]
    /\ TenantsIdle

\* a repost stream with the columns the credential is resolved from
CredentialStream(is_public, phone) ==
    [donor |-> "@donor", targets |-> <<300>>, last_message_id |-> 0, is_active |-> 1,
     is_public_channel |-> is_public, phone_number |-> phone]

\* one tick loop at its repost pass; the main credential is configured or not,
\* each phone has no linked account, one without a credential, or one with it
InitCredential ==
    /\ now = 0
    /\ horizon = 0
    /\ Config = DefaultCaps
    /\ dedup_table = migrate_published_dedup_table(create_user_database)
    /\ published_dedup = {}
    /\ posts = <<>>
    /\ random_posts = <<>>
    /\ pc = [w \in Workers |-> IF w = "w1" THEN "repost" ELSE "stopped"]
    /\ due_rows = [w \in Workers |-> <<>>]
    /\ cur = [w \in Workers |-> 0]
    /\ attempt = [w \in Workers |-> 0]
    /\ post_data = [w \in Workers |-> NoPost]
    /\ fingerprint = [w \in Workers |-> NoFingerprint]
    /\ last_backfill_time = [w \in Workers |-> NULL]
    /\ sent = EmptyBag
    /\ turn = [w \in Workers |-> NewTurn]
    /\ repost_streams \in {<<CredentialStream(pub, ph)>> :
                              pub \in {0, 1}, ph \in Phones \cup {""}}
    /\ donor_chat = <<>>
    /\ last_message_id = [w \in Workers |-> 0]
    /\ new_messages = [w \in Workers |-> <<>>]
    /\ max_id = [w \in Workers |-> 0]
    /\ polled = {}
    /\ periodic_posts = <<>>
    /\ target_channels = [w \in Workers |-> <<>>]
    /\ current_time = [w \in Workers |-> 0]
    /\ client_cache = [s \in Sessions |-> "none"]
    /\ active_clients = [u \in Users |-> "none"]
    /\ client = [w \in Workers |-> NoClient]
    /\ starts = [s \in Sessions |-> 0]
    /\ channel_locks = [ch \in Channels |-> "free"]
    /\ session_string \in {"", "s1"}
    /\ linked_accounts \in [Phones -> {"none", "", "s2"}]
    /\ TenantsIdle

\* one tick loop, the stream paused; besides a due slot the store holds a slot
\* that is due later, never within the horizon, or has no parsable time
InitDue ==
    InitWith({"w1"}, {DefaultCaps}, {migrate_published_dedup_table(create_user_database)},
             {<<RandomSlot(100, {"@a"}, 0), RandomSlot(ch, {"@a"}, at)>> :
                 ch \in Channels, at \in {1, 2, BadTime}}
               \cup {<<o>> : o \in OneShots} \cup {<<RandomSlot(100, {}, 0)>>},
             {<<Stream(0, 1)>>}, MaxTime)

\* a row of periodic_posts
PeriodicStream(donor, targets, last, active) ==
    [donor_channel |-> donor, target_channels |-> targets, last_post_time |-> last,
     is_active |-> active]

\* one tick loop at its periodic pass; one periodic stream with up to three
\* targets, never published or published at time 0
InitPeriodic ==
    /\ now = 0
    /\ horizon = PeriodLen
    /\ Config = DefaultCaps
    /\ dedup_table = migrate_published_dedup_table(create_user_database)
    /\ published_dedup = {}
    /\ posts = <<>>
    /\ random_posts = <<>>
    /\ pc = [w \in Workers |-> IF w = "w1" THEN "periodic" ELSE "stopped"]
    /\ due_rows = [w \in Workers |-> <<>>]
    /\ cur = [w \in Workers |-> 0]
    /\ attempt = [w \in Workers |-> 0]
    /\ post_data = [w \in Workers |-> NoPost]
    /\ fingerprint = [w \in Workers |-> NoFingerprint]
    /\ last_backfill_time = [w \in Workers |-> NULL]
    /\ sent = EmptyBag
    /\ turn = [w \in Workers |-> NewTurn]
    /\ repost_streams = <<>>
    /\ donor_chat = <<>>
    /\ last_message_id = [w \in Workers |-> 0]
    /\ new_messages = [w \in Workers |-> <<>>]
    /\ max_id = [w \in Workers |-> 0]
    /\ polled = {}
    /\ periodic_posts \in {<<PeriodicStream(d, ts, last, a)>> :
                               d \in {"@a", "@b"},
                               ts \in {<<>>, <<100>>, <<100, 200>>, <<100, 200, 300>>},
                               last \in {NULL, 0}, a \in {0, 1}}
    /\ target_channels = [w \in Workers |-> <<>>]
    /\ current_time = [w \in Workers |-> 0]
    /\ client_cache = [s \in Sessions |-> "none"]
    /\ active_clients = [u \in Users |-> "none"]
    /\ client = [w \in Workers |-> NoClient]
    /\ starts = [s \in Sessions |-> 0]
    /\ channel_locks = [ch \in Channels |-> "free"]
    /\ session_string = "s1"
    /\ linked_accounts = [ph \in Phones |-> "none"]
    /\ TenantsIdle

\* the backfill pass as a function of the time of day, the stream and the store:
\* one tick loop started at any time of the first day on a store that is empty
\* or holds one pending slot of the stream left by an earlier pass
FillStores ==
    {<<>>} \cup {<<RandomSlot(100, {"@a"}, at)>> : at \in 0..(2 * DayLen - 1)}

FillStreams ==
    {<<[Stream(1, k) EXCEPT !.targets = ts]>> :
        k \in 1..MaxFillPerDay, ts \in {<<100>>, <<100, 200>>}}

InitFill ==
    /\ now \in 0..(DayLen - 1)
    /\ horizon = DayLen
    /\ Config = DefaultCaps
    /\ dedup_table = migrate_published_dedup_table(create_user_database)
    /\ published_dedup = {}
    /\ posts \in FillStores
    /\ random_posts \in FillStreams
    /\ pc = [w \in Workers |-> IF w = "w1" THEN "start" ELSE "stopped"]
    /\ due_rows = [w \in Workers |-> <<>>]
    /\ cur = [w \in Workers |-> 0]
    /\ attempt = [w \in Workers |-> 0]
    /\ post_data = [w \in Workers |-> NoPost]
    /\ fingerprint = [w \in Workers |-> NoFingerprint]
    /\ last_backfill_time = [w \in Workers |-> NULL]
    /\ sent = EmptyBag
    /\ turn = [w \in Workers |-> NewTurn]
    /\ repost_streams = <<>>
    /\ donor_chat = <<>>
    /\ last_message_id = [w \in Workers |-> 0]
    /\ new_messages = [w \in Workers |-> <<>>]
    /\ max_id = [w \in Workers |-> 0]
    /\ ExtrasIdle

RepostStream(targets) ==
    [donor |-> "@donor", targets |-> targets, last_message_id |-> 0, is_active |-> 1]

\* one tick loop, one repost stream not yet baselined, the donor's history so far
InitRepost ==
    /\ now = 0
    /\ horizon = 0
    /\ Config = DefaultCaps
    /\ dedup_table \in Tables
    /\ published_dedup = {}
    /\ posts = <<>>
    /\ random_posts = <<>>
    /\ pc = [w \in Workers |-> IF w = "w1" THEN "repost" ELSE "stopped"]
    /\ due_rows = [w \in Workers |-> <<>>]
    /\ cur = [w \in Workers |-> 0]
    /\ attempt = [w \in Workers |-> 0]
    /\ post_data = [w \in Workers |-> NoPost]
    /\ fingerprint = [w \in Workers |-> NoFingerprint]
    /\ last_backfill_time = [w \in Workers |-> NULL]
    /\ sent = EmptyBag
    /\ turn = [w \in Workers |-> NewTurn]
    /\ repost_streams \in {<<RepostStream(<<300>>)>>, <<RepostStream(<<300, 400>>)>>}
    /\ donor_chat \in {<<>>} \cup {<<m>> : m \in DonorMessages}
    /\ last_message_id = [w \in Workers |-> 0]
    /\ new_messages = [w \in Workers |-> <<>>]
    /\ max_id = [w \in Workers |-> 0]
    /\ ExtrasIdle

Next ==
    \/ Tick
    \/ \E w \in Workers :
          \/ Backfill(w)
          \/ SkipBackfill(w)
          \/ StartScheduledPass(w)
          \/ PublishScheduled(w)
          \/ CommitScheduled(w)
          \/ EndScheduledPass(w)
          \/ StartRandomPass(w)
          \/ ReserveSlot(w)
          \/ ReleaseNoDonors(w)
          \/ Attempt(w)
          \/ AbsorbExhausted(w)
          \/ CheckCaps(w)
          \/ Publish(w)
          \/ Commit(w)
          \/ HandlerReleaseSlot(w)
          \/ HandlerReleaseDedup(w)
          \/ EndRandomPass(w)
          \/ Stop(w)

Spec == Init /\ [][Next]_vars

SpecCaps == InitCaps /\ [][Next]_vars

SpecBackfill == InitBackfill /\ [][Next]_vars

SpecDue == InitDue /\ [][Next]_vars

\* the tick loop on a store that holds one repost stream and no slots: the
\* one-shot, random and backfill passes of each iteration find nothing to do
NextRepost ==
    \/ DonorPosts
    \/ update_post_donor("@other")
    \/ \E w \in Workers :
          \/ StartRepostPass(w)
          \/ Baseline(w)
          \/ BaselineFailed(w)
          \/ FetchNew(w)
          \/ RepostOne(w)
          \/ AdvanceLastSeen(w)

SpecRepost == InitRepost /\ [][NextRepost]_vars

\* the start of the tick loop and its one-shot pass
NextOneShot ==
    \E w \in Workers :
        \/ Backfill(w)
        \/ StartScheduledPass(w)
        \/ PublishScheduled(w)
        \/ CommitScheduled(w)
        \/ EndScheduledPass(w)

SpecOneShot == InitOneShot /\ [][NextOneShot]_vars

\* the backfill pass run again and again at one instant
NextFill ==
    \E w \in Workers :
        \/ BackfillUpTo(w, MaxFill)
        \/ Restart(w)

SpecFill == InitFill /\ [][NextFill]_vars

\* the periodic pass of the tick loop on a store that holds one periodic stream
\* and nothing else: the other passes of each iteration find nothing to do
NextPeriodic ==
    \/ Tick
    \/ \E w \in Workers :
          \/ StartPeriodicPass(w)
          \/ PeriodicRow(w)
          \/ PeriodicOne(w)
          \/ PeriodicUpdate(w)
          \/ EndPeriodicPass(w)

SpecPeriodic == InitPeriodic /\ [][NextPeriodic]_vars

\* the repost pass of the tick loop up to its request for a reader session
NextCredential ==
    \/ ConnectionLost
    \/ \E w \in Workers :
          \/ RepostRequest(w)
          \/ client_start(w)
          \/ Stop(w)
          \/ Restart(w)

SpecCredential == InitCredential /\ [][NextCredential]_vars

\* the tasks that publish: w1 is the tick loop, whose passes call the publisher
\* one after the other, or an ad-hoc publication; w2 is an ad-hoc publication
NextGate ==
    \/ \E ch \in Channels : DirectPublish("w1", ch)
    \/ \E w \in Workers :
        \/ \E ch \in Channels : JitterFetch(w, ch)
        \/ JitterLock(w)
        \/ JitterReserve(w)
        \/ JitterPublish(w)
        \/ PublishReturns(w)

SpecGate == InitGate /\ [][NextGate]_vars

\* the tick loop's requests for reader sessions, the login flow, and the
\* cleanup task of main.py
NextPool ==
    \/ ConnectionLost
    \/ cleanup_inactive_clients
    \/ \E u \in Users : process_phone(u) \/ process_code(u)
    \/ \E w \in Workers :
          \/ \E s \in Sessions : get_client(w, s)
          \/ client_start(w)
          \/ Stop(w)
          \/ Restart(w)

\* the cleanup task runs every 300 s for ever (main.py:71-79), and every tick
\* of a running loop asks for the session of each stream (schu.py:492, 733)
SpecPool ==
    /\ InitPool
    /\ [][NextPool]_vars
    /\ WF_vars(cleanup_inactive_clients)
    /\ \A s \in Sessions : WF_vars(get_client("w1", s))
    /\ WF_vars(client_start("w1"))

----------------------------------------------------------------------------
\* Properties

\* number of successful publications among the records S of sent
Publications(S) == BagCardinality([r \in S |-> CopiesIn(r, sent)])

SentRandom == {r \in BagToSet(sent) : r.kind = "random"}
SentOneShot == {r \in BagToSet(sent) : r.kind # "random"}

\* C1: a random slot is successfully published at most once, whatever publisher
\* failures, storage failures after the publication and retries happen
C1_RandomSlotAtMostOnce ==
    \A r \in SentRandom :
        Publications({q \in SentRandom : q.post_id = r.post_id}) <= 1

\* C2: a one-shot slot is successfully published at most once
C2_OneShotAtMostOnce ==
    \A r \in SentOneShot :
        Publications({q \in SentOneShot : q.post_id = r.post_id}) <= 1

\* C3: no two successful random publications to one channel carry the same
\* fingerprint, on every store create_user_database or the migrations produce
C3_NoDuplicateFingerprint ==
    \A r \in SentRandom :
        Publications({q \in SentRandom : /\ q.channel_id = r.channel_id
                                         /\ q.fingerprint = r.fingerprint}) <= 1

\* the turn of w ends in this step by the except-block, after a failed publication
\* that followed a dedup reservation which returned True
RollbackEnds(w) ==
    /\ pc[w] = "handler2"
    /\ pc'[w] = "row"
    /\ turn[w].publish = "failed"

C5_DedupRemovedBeforeRelease ==
    \A w \in Workers :
        (/\ pc[w] \in {"handler", "handler2"}
         /\ turn[w].publish = "failed"
         /\ posts[cur[w]].is_published = 0)
        => \A e \in turn[w].inserted : ~DedupHas(published_dedup, e[1], e[2])

\* the workers whose turn on slot id has reserved it and not yet given it up
Owners(id) == {w \in Workers : Holds(w) /\ cur[w] = id}

\* w takes a row from its due rows and tries to reserve it (lines 302-316)
ReserveStep(w) ==
    /\ pc[w] = "row"
    /\ due_rows[w] # <<>>
    /\ due_rows'[w] = Tail(due_rows[w])
    /\ pc'[w] # "stopped"
    /\ posts[Head(due_rows[w])].scheduled_time <= now

SlotEdge(id) == <<posts[id].is_published, posts'[id].is_published>>

\* where the code takes Reserved -> Pending
PublishFailedRelease(id) ==
    \E w \in Workers : cur[w] = id /\ pc[w] = "handler" /\ turn[w].publish = "failed"

SpacingDeferral(id) ==
    \E w \in Workers : /\ cur[w] = id
                       /\ pc[w] = "caps"
                       /\ SpacingCapHit(published_dedup, posts[id].channel_id, now)

NoDonorsRelease(id) == \E w \in Workers : cur[w] = id /\ pc[w] = "nodonors"

StorageFailedRelease(id) ==
    \E w \in Workers : cur[w] = id /\ pc[w] = "handler" /\ turn[w].publish # "failed"

C8_ReservedIsOwned ==
    \A id \in DOMAIN posts :
        posts[id].is_published = -1 => Cardinality(Owners(id)) = 1

\* slots of stream sid for target ch scheduled within day d, in any state
SlotsOfDay(sid, ch, d) ==
    {id \in DOMAIN posts : /\ posts[id].content_type = "random"
                           /\ posts[id].random_post_id = sid
                           /\ posts[id].channel_id = ch
                           /\ posts[id].scheduled_time \div DayLen = d}

\* C9: the slots of a stream for one target scheduled within one day (pending,
\* reserved and done together) never exceed posts_per_day
C9_DailyQuota ==
    \A sid \in DOMAIN random_posts : \A ch \in Channels :
        \A d \in 0..((horizon \div DayLen) + 1) :
            Cardinality(SlotsOfDay(sid, ch, d)) <= random_posts[sid].posts_per_day

\* successful publications to channel ch on the day of t
PublishedToday(ch, t) ==
    Publications({r \in BagToSet(sent) : r.channel_id = ch /\ r.day = t \div DayLen})

\* C10: with the daily cap N > 0 a slot that obtained a fresh candidate is
\* absorbed only when N publications to its channel have succeeded today
C10_AbsorbedOnlyAtCap ==
    [][\A w \in Workers :
         (/\ pc[w] = "caps"
          /\ pc'[w] = "row"
          /\ posts'[cur[w]].is_published = 1)
         => PublishedToday(posts[cur[w]].channel_id, now)
                >= Config.MAX_POSTS_PER_CHANNEL_PER_DAY]_vars

\* w's turn is deferred by the spacing cap in this step (lines 390-395)
DeferredStep(w) ==
    /\ pc[w] = "caps"
    /\ pc'[w] = "row"
    /\ posts[cur[w]].is_published = -1
    /\ posts'[cur[w]].is_published = 0

\* C11: with the spacing cap S > 0 a reserved slot with a fresh candidate is
\* released without publishing only if an earlier publication to the same
\* channel happened (less than S seconds ago); a channel that has had no
\* publication gets the slot published in that attempt
C11_DeferredOnlyAfterPublication ==
    [][\A w \in Workers :
         DeferredStep(w) =>
             \E r \in BagToSet(sent) : r.channel_id = posts[cur[w]].channel_id]_vars

\* w's turn on a slot ends in this step: committed, absorbed, deferred or rolled back
TurnEnds(w) == turn[w].end = "none" /\ turn'[w].end \notin {"none", "lost"}

DedupRecords(tbl, ch) == {r \in tbl : r.channel_id = ch}

\* C12: after a random-pass attempt (a successful publish, a publish failure,
\* an absorption by retry exhaustion or daily cap, a spacing-cap deferral) the
\* number of dedup records stored for the channel equals the number of
\* successful random publications to it
C12_DedupCountsPublications ==
    [][\A w \in Workers :
         (dedup_table = "unique" /\ TurnEnds(w))
         => LET ch == posts[cur[w]].channel_id
            IN Cardinality(DedupRecords(published_dedup', ch))
                   = BagCardinality([q \in {r \in BagToSet(sent') :
                                               r.kind = "random" /\ r.channel_id = ch}
                                     |-> CopiesIn(q, sent')])]_vars

\* w's latest turn ended in the except-block after its publication failed
PublishFailed(w) == turn[w].end = "rolledback" /\ turn[w].publish = "failed"

\* w is in a turn that retries a slot whose publication failed, has a fresh
\* candidate, and no cap is configured
RetryWithCandidate(w) ==
    /\ turn[w].retry
    /\ pc[w] \in {"caps", "publish", "commit", "handler", "handler2"}
    /\ Config = DefaultCaps

BaselineStep(w) == pc[w] = "rp_poll" /\ last_message_id[w] = 0 /\ pc'[w] = "repost"

\* C14: a poll of a stream whose last seen id is 0 publishes nothing and inserts
\* no dedup record; when its read of the donor and its UPDATE succeed, the stored
\* last seen id becomes the donor's tip, and otherwise it stays 0
C14_BaselineOnly ==
    [][\A w \in Workers : BaselineStep(w) =>
          /\ sent' = sent
          /\ published_dedup' = published_dedup
          /\ repost_streams'[1].last_message_id =
                IF turn'[w].end = "baselined" THEN Len(donor_chat) ELSE 0
          /\ turn'[w].end = "baselined" => Len(donor_chat) > 0]_vars

C14_Baselined ==
    \E w \in Workers :
        /\ turn[w].end = "baselined"
        /\ Len(donor_chat) >= 2
        /\ repost_streams[1].last_message_id = Len(donor_chat)
        /\ sent = EmptyBag
        /\ published_dedup = {}

\* the publications of donor message id to target ch
Reposts(id, ch) ==
    {r \in BagToSet(sent) : r.kind = "repost" /\ r.post_id = id /\ r.channel_id = ch}

\* the poll has gone through all its new messages and no send of it failed
PollDone(w) ==
    pc[w] = "rp_publish" /\ new_messages[w] = <<>> /\ turn[w].publish # "failed"

TargetsOf(sid) == {repost_streams[sid].targets[t] : t \in DOMAIN repost_streams[sid].targets}

\* C15: when a poll found new content messages and every publish succeeded, each
\* new message has been published exactly once to each target, two messages of
\* the same kind and stripped text included, and the UPDATE that follows stores
\* the largest new id
C15_EachNewMessageOnce ==
    /\ [](\A w \in Workers : PollDone(w) =>
             \A id \in NewIds(donor_chat, last_message_id[w]) : id <= max_id[w] =>
                 \A ch \in TargetsOf(1) : Publications(Reposts(id, ch)) = 1)
    /\ [][\A w \in Workers : (PollDone(w) /\ max_id[w] # 0 /\ turn'[w].end = "advanced") =>
             repost_streams'[1].last_message_id = max_id[w]]_vars

\* a step of a poll that publishes donor message id to target ch
RepostSent(w, id, ch) ==
    /\ pc[w] = "rp_publish"
    /\ new_messages[w] # <<>>
    /\ Head(new_messages[w]) = <<id, ch>>
    /\ sent' # sent

\* C16: within one poll the publications to one target follow ascending donor
\* message id (what is published later in the poll to the same target has a
\* larger id), and no donor message is ever published twice to the same target
C16_AscendingAndOnce ==
    /\ [][\A w \in Workers : \A id \in DOMAIN donor_chat : \A ch \in TargetsOf(1) :
            RepostSent(w, id, ch) =>
                \A k \in DOMAIN new_messages'[w] :
                    new_messages'[w][k][2] = ch => new_messages'[w][k][1] > id]_vars
    /\ [](\A id \in DOMAIN donor_chat : \A ch \in TargetsOf(1) :
             Publications(Reposts(id, ch)) <= 1)

\* C17: over any sequence of polls the stored last_message_id of a stream never
\* decreases
C17_LastSeenMonotone ==
    [][\A sid \in DOMAIN repost_streams :
          repost_streams'[sid].last_message_id >= repost_streams[sid].last_message_id]_vars

C17_AdvancedTwice ==
    \E w \in Workers :
        /\ turn[w].end = "advanced"
        /\ pc[w] = "repost"
        /\ repost_streams[1].last_message_id = 3
        /\ \E r \in BagToSet(sent) : r.kind = "repost" /\ r.post_id = 2


\* the pending slots of the store
Pending(p) == {id \in DOMAIN p : p[id].content_type = "random" /\ p[id].is_published = 0}

\* the step of the tick loop that runs the backfill pass at its start
BackfillStep(w) == pc[w] = "start" /\ pc'[w] = "scheduled"

\* C18: a backfill pass that runs at the instant of the previous one, with no
\* other operation on the store in between, leaves the set of pending slots as
\* the previous pass left it
C18_BackfillIdempotent ==
    [][\A w \in Workers : (BackfillStep(w) /\ last_backfill_time[w] = now) =>
          Pending(posts') = Pending(posts)]_vars

\* pending slots of stream sid for target ch with scheduled_time in lo..hi
PendingIn(p, sid, ch, lo, hi) ==
    {id \in Pending(p) : /\ p[id].random_post_id = sid
                         /\ p[id].channel_id = ch
                         /\ p[id].scheduled_time >= lo
                         /\ p[id].scheduled_time <= hi}

\* C19: after a backfill pass every target of an active stream has exactly
\* posts_per_day pending slots within today's window and exactly posts_per_day
\* within tomorrow's, whatever slots existed before the pass
C19_ExactlyKPerWindow ==
    [][\A w \in Workers : BackfillStep(w) =>
          \A sid \in DOMAIN random_posts : \A t \in DOMAIN random_posts[sid].targets :
              LET ch == random_posts[sid].targets[t]
                  K == random_posts[sid].posts_per_day
              IN /\ Cardinality(PendingIn(posts', sid, ch, DayStart(now), DayEnd(now))) = K
                 /\ Cardinality(PendingIn(posts', sid, ch, DayStart(now) + DayLen,
                                           DayEnd(now) + DayLen)) = K]_vars

\* the times stream sid lists in next_post_times_json
UpcomingTimes(sid) ==
    {random_posts[sid].next_post_times[i] : i \in DOMAIN random_posts[sid].next_post_times}

\* a tick loop is running and no attempt on a slot is under way: every
\* statement so far is committed
Quiet ==
    /\ \E w \in Workers : pc[w] # "stopped"
    /\ \A w \in Workers : ~Holds(w) /\ pc[w] # "handler2"

\* C20: between the attempts of the random pass, a stream's upcoming times are
\* times of its pending slots (or of a slot that stop() left reserved), and
\* after a backfill pass or a committed random publication they include the
\* time of every pending future slot
C20_UpcomingTimesArePending ==
    /\ [](Quiet => \A sid \in DOMAIN random_posts : \A t \in UpcomingTimes(sid) :
             \E id \in DOMAIN posts : /\ posts[id].random_post_id = sid
                                      /\ posts[id].is_published \in {0, -1}
                                      /\ posts[id].scheduled_time = t)
    /\ [][\A w \in Workers :
            (BackfillDue(w) /\ pc'[w] = "scheduled" /\ last_backfill_time'[w] = now)
            \/ (TurnEnds(w) /\ turn'[w].end = "committed")
            => \A id \in Pending(posts') :
                  (posts'[id].random_post_id \in DOMAIN random_posts
                   /\ random_posts[posts'[id].random_post_id].is_active = 1
                   /\ posts'[id].scheduled_time > now)
                  => posts'[id].scheduled_time
                        \in {random_posts'[posts'[id].random_post_id].next_post_times[i] :
                               i \in DOMAIN random_posts'[posts'[id].random_post_id].next_post_times}]_vars

\* C22: a one-shot slot becomes Done only if a message was sent or forwarded to
\* its channel in that pass, whatever its content kind and however its stored
\* content reads
C22_DoneOnlyIfSent ==
    [][\A w \in Workers :
          (/\ pc[w] = "os_commit"
           /\ posts[cur[w]].is_published = 0
           /\ posts'[cur[w]].is_published = 1)
          => \E r \in BagToSet(sent) : /\ r.post_id = cur[w]
                                       /\ r.channel_id = posts[cur[w]].channel_id
                                       /\ r.kind \in {"publish", "forward"}]_vars

\* a step of a poll whose dedup reservation for (id, ch) succeeded and whose
\* download or send then failed
RepostFailed(w, id, ch) ==
    /\ pc[w] = "rp_publish"
    /\ new_messages[w] # <<>>
    /\ Head(new_messages[w]) = <<id, ch>>
    /\ reserve_dedup_ok(published_dedup, ch, make_post_fingerprint(RepostData(donor_chat[id])))
    /\ sent' = sent

\* C23: when the publish of a repost-stream message to a target fails, no dedup
\* record for that target and fingerprint remains after the attempt
C23_RepostFailureReleasesDedup ==
    [][\A w \in Workers : \A id \in DOMAIN donor_chat : \A ch \in TargetsOf(1) :
          RepostFailed(w, id, ch) =>
              ~DedupHas(published_dedup', ch,
                        make_post_fingerprint(RepostData(donor_chat[id])))]_vars

\* C24: while the stream's donor is one that no poll has read yet, a poll
\* publishes nothing, and the poll that reads it stores the donor's tip
C24_NewDonorBaselined ==
    [][\A w \in Workers :
          (pc[w] \in {"rp_poll", "rp_publish"} /\ repost_streams[1].donor \notin polled) =>
              /\ sent' = sent
              /\ repost_streams[1].donor \in polled' =>
                    repost_streams'[1].last_message_id = Tip(donor_chat)]_vars

\* C25: at most 5 fetch attempts are made for a reserved random slot, and when
\* none of them yields a candidate whose dedup reservation succeeds the slot
\* becomes Done with no publication, no dedup record added by the attempt and
\* the stream's last_post_time unchanged
C25_ExhaustedIsAbsorbed ==
    /\ [](\A w \in Workers : attempt[w] <= 5)
    /\ [][\A w \in Workers :
            (pc[w] = "absorb" /\ turn'[w].end = "exhausted") =>
                /\ attempt[w] = 5
                /\ posts'[cur[w]].is_published = 1
                /\ sent' = sent
                /\ turn[w].publish = "none"
                /\ turn[w].inserted = {}
                /\ published_dedup' = published_dedup
                /\ random_posts' = random_posts]_vars

C25_AbsorbedAfterDuplicates ==
    \E w \in Workers :
        /\ turn[w].end = "exhausted"
        /\ posts[turn[w].slot].is_published = 1
        /\ posts[turn[w].slot].donors # {}
        /\ \E r \in published_dedup : r.channel_id = posts[turn[w].slot].channel_id
        /\ ~\E r \in SentRandom : r.post_id = turn[w].slot

\* C26: a time of today's window computed in the last minute of the day is
\* inserted within the first minutes of tomorrow (plus the target's offset),
\* not within today -- for every target and every choice the generator can make
\* at the instant of the pass
C26_LastMinuteMovesToTomorrow ==
    [][\A w \in Workers : BackfillStep(w) =>
          \A sid \in DOMAIN random_posts : \A idx \in DOMAIN random_posts[sid].targets :
              LET offset == Max(0, idx - 1) * SecPerMin
                  remaining_minutes == Max(1, Max(0, DayEnd(now) - now) \div SecPerMin)
              IN \A m \in 0..(remaining_minutes - 1), s \in 0..(SecPerMin - 1),
                    jit \in 0..MaxJitter :
                     LET dt == now + m * SecPerMin + s + offset
                         at == ClampToday(now, dt, jit, offset)
                     IN MinuteOfDay(dt) = MinPerDay - 1 =>
                            /\ at >= DayStart(now) + DayLen
                            /\ at <= DayStart(now) + DayLen + MaxJitter * SecPerMin + offset]_vars

\* the slots a step appends to the store
Inserted == {posts'[id].scheduled_time : id \in (Len(posts) + 1)..Len(posts')}

\* C27: every slot a backfill pass inserts lies either between now + 2 minutes
\* and the end of today, or within tomorrow
C27_InsertedWithinWindows ==
    [][\A w \in Workers : BackfillStep(w) =>
          \A at \in Inserted :
              \/ now + MinFutureMinutes * SecPerMin <= at /\ at <= DayEnd(now)
              \/ DayStart(now) + DayLen <= at /\ at <= DayEnd(now) + DayLen]_vars

\* the retry loop's reservation for worker w returned true: the loop goes on
\* to the caps with the candidate
ReservedTrue(w) == pc[w] = "retry" /\ pc'[w] = "caps"

\* C29: a dedup reservation returns true exactly when it inserted a new record
\* for (target, fingerprint); it returns false whenever nothing was inserted,
\* a failed storage operation included
C29_TrueIffInserted ==
    [][\A w \in Workers : pc[w] = "retry" =>
          LET rec == [channel_id |-> posts[cur[w]].channel_id, fingerprint |-> fingerprint'[w]]
              inserted == /\ ~DedupHas(published_dedup, rec.channel_id, rec.fingerprint)
                          /\ DedupHas(published_dedup', rec.channel_id, rec.fingerprint)
          IN ReservedTrue(w) <=> inserted]_vars

\* C21: within one periodic publication the fingerprint computed for a target
\* is the fingerprint computed for the target before it
C21_SameFingerprintPerTarget ==
    [][\A w \in Workers :
          (pc[w] = "pp_targets" /\ fingerprint[w] # NoFingerprint
             /\ fingerprint'[w] # NoFingerprint) => fingerprint'[w] = fingerprint[w]]_vars

\* C28: when the periodic pass has visited the targets of a due stream with a
\* fetched candidate and no send was refused by the bot API, the candidate was
\* sent to every target whose dedup reservation succeeded, and the stream's
\* last_post_time is the time of the pass
C28_SentToEveryReservedTarget ==
    [][\A w \in Workers :
          (pc[w] = "pp_targets" /\ turn'[w].end = "updated" /\ turn[w].publish # "failed") =>
              /\ \A r \in turn[w].inserted :
                    \E s \in BagToSet(sent) : /\ s.kind = "periodic"
                                              /\ s.post_id = cur[w]
                                              /\ s.channel_id = r[1]
              /\ periodic_posts'[cur[w]].last_post_time = current_time[w]]_vars

\* C30: a cached reader session that has become disconnected is eventually
\* removed from the scheduler's cache, so that the next request for its
\* credential starts a fresh session
C30_DisconnectedIsCollected ==
    \A s \in Sessions : (client_cache[s] = "disconnected") ~> (client_cache[s] # "disconnected")

\* C31: between two shutdowns at most one client is constructed and started
\* for a session string, whatever the interleaving of the requests
C31_OneSessionPerCredential == \A s \in Sessions : starts[s] <= 1

\* C32: no two tasks are inside publish_post_to_channel for the same channel
\* at once
C32_NoTwoInFlight ==
    \A a, b \in Workers :
        (a # b /\ InPublish(a) /\ InPublish(b)) => target_channels[a] # target_channels[b]

\* C33: an active stream with a non-public source whose phone has a linked
\* account holding a credential is polled with that credential, whether or
\* not the main credential is configured
C33_PolledWithAccountCredential ==
    \A sid \in DOMAIN repost_streams :
        LET stream == repost_streams[sid]
        IN (/\ stream.is_active = 1
            /\ stream.is_public_channel = 0
            /\ stream.phone_number \in Phones
            /\ linked_accounts[stream.phone_number] \in Sessions) =>
               PollSession(session_string, stream, linked_accounts)
                   = linked_accounts[stream.phone_number]

\* C34: a call of the publisher that ends has either sent exactly one message
\* to its channel or raised
C34_SendsOneOrRaises ==
    [][\A w \in Workers : (InPublish(w) /\ pc'[w] # "in_publish") =>
          \/ /\ turn'[w].publish = "ok"
             /\ \E m \in BagToSet(sent') : /\ m.channel_id = Head(target_channels[w])
                                           /\ sent' = sent (+) SetToBag({m})
          \/ /\ turn'[w].publish = "failed"
             /\ sent' = sent]_vars

\* C35: a random slot whose scheduled_time is later than now or does not parse
\* is not reserved, published or changed by any step of the tick loop
C35_NotDueIsUntouched ==
    [][\A id \in DOMAIN posts :
          (posts[id].content_type = "random"
             /\ (posts[id].scheduled_time = BadTime \/ posts[id].scheduled_time > now)) =>
              /\ posts'[id] = posts[id]
              /\ \A w \in Workers : cur'[w] # id
              /\ \A m \in BagToSet(sent') : m.kind = "random" => m.post_id # id]_vars

\* a slot without a parsable time was fetched and passed over, and the pass
\* went on to publish the due slot after it
C35_PassedOver ==
    \E id \in DOMAIN posts :
        /\ posts[id].scheduled_time = BadTime
        /\ posts[id].is_published = 0
        /\ \E w \in Workers : turn[w].end = "committed" /\ turn[w].slot # id

\* ---- the random pass over the tenant databases (schu.py 263-468) ----

MaxTenantSlots == 2

\* line 267: glob(DB_DIR/*.db)
DbFiles == <<"a.db", "b.db">>

RECURSIVE Ascending(_)
Ascending(S) ==
    IF S = {} THEN <<>>
    ELSE LET m == CHOOSE x \in S : \A y \in S : x <= y
         IN  <<m>> \o Ascending(S \ {m})

\* lines 276-283 on one tenant's store: the pending slots that are due
TenantDue(db) == Ascending({id \in DOMAIN tenants[db] : tenants[db][id] = 0})

\* a tenant error that leaves the pass: the databases after it are not visited
TenantError_AsPropagated(w) ==
    /\ db_files' = [db_files EXCEPT ![w] = <<>>]
    /\ due_rows' = [due_rows EXCEPT ![w] = <<>>]
    /\ Goto(w, "t_db")

\* lines 467-468: an error outside the row loop is logged by the except-block
\* of the tenant, and the for-loop goes on with the next database
TenantError(w) ==
    /\ db_files' = [db_files EXCEPT ![w] = Tail(db_files[w])]
    /\ due_rows' = [due_rows EXCEPT ![w] = <<>>]
    /\ Goto(w, "t_db")

\* lines 265-267: the pass starts
TenantsStart(w) ==
    /\ pc[w] = "t_idle"
    /\ db_files' = [db_files EXCEPT ![w] = DbFiles]
    /\ visited' = [visited EXCEPT ![w] = {}]
    /\ Goto(w, "t_db")
    /\ UNCHANGED <<tenants, due_rows>>

\* lines 267-285: connect and SELECT the due rows; either may raise
TenantOpen(w) ==
    /\ pc[w] = "t_db"
    /\ db_files[w] # <<>>
    /\ LET db == Head(db_files[w])
       IN  \/ /\ visited' = [visited EXCEPT ![w] = @ \cup {<<db, "opened">>}]
              /\ IF TenantDue(db) = <<>>
                 THEN /\ db_files' = [db_files EXCEPT ![w] = Tail(db_files[w])]
                      /\ UNCHANGED <<pc, due_rows>>
                 ELSE /\ due_rows' = [due_rows EXCEPT ![w] = TenantDue(db)]
                      /\ Goto(w, "t_row")
                      /\ UNCHANGED db_files
           \/ /\ visited' = [visited EXCEPT ![w] = @ \cup {<<db, "raised">>}]
              /\ TenantError(w)
    /\ UNCHANGED tenants

\* lines 286-466: one due row; the attempt commits the slot, or raises and the
\* except-block of the row releases it; either way the for-loop goes on
TenantRow(w) ==
    /\ pc[w] = "t_row"
    /\ LET db == Head(db_files[w])
           id == Head(due_rows[w])
           rest == Tail(due_rows[w])
       IN  /\ \E outcome \in {"committed", "failed"} :
                 /\ tenants' = [tenants EXCEPT ![db][id] =
                                   IF outcome = "committed" THEN 1 ELSE 0]
                 /\ visited' = [visited EXCEPT ![w] = @ \cup {<<db, id, outcome>>}]
           /\ due_rows' = [due_rows EXCEPT ![w] = rest]
           /\ IF rest = <<>>
              THEN /\ db_files' = [db_files EXCEPT ![w] = Tail(db_files[w])]
                   /\ Goto(w, "t_db")
              ELSE UNCHANGED <<db_files, pc>>

\* the for-loop over the databases is exhausted: the pass returns
TenantsEnd(w) ==
    /\ pc[w] = "t_db"
    /\ db_files[w] = <<>>
    /\ Goto(w, "t_done")
    /\ UNCHANGED <<db_files, tenants, visited, due_rows>>

\* lines 115-128: the loop sleeps and runs the pass again
TenantsAgain(w) ==
    /\ pc[w] = "t_done"
    /\ Goto(w, "t_idle")
    /\ UNCHANGED <<db_files, tenants, visited, due_rows>>

tenantFrame == <<now, horizon, Config, dedup_table, gateVars, repostVars, polled, periodicVars,
                 poolVars, published_dedup, posts, random_posts, cur, locals,
                 last_backfill_time, sent, turn>>

NextTenants ==
    \/ TenantsStart("w1") /\ UNCHANGED tenantFrame
    \/ TenantOpen("w1") /\ UNCHANGED tenantFrame
    \/ TenantRow("w1") /\ UNCHANGED tenantFrame
    \/ TenantsEnd("w1") /\ UNCHANGED tenantFrame
    \/ TenantsAgain("w1") /\ UNCHANGED tenantFrame

\* one tick loop; every tenant holds up to MaxTenantSlots due pending random slots
InitTenants ==
    /\ now = 0
    /\ horizon = 0
    /\ Config = DefaultCaps
    /\ dedup_table = migrate_published_dedup_table(create_user_database)
    /\ published_dedup = {}
    /\ posts = <<>>
    /\ random_posts = <<>>
    /\ pc = [w \in Workers |-> IF w = "w1" THEN "t_idle" ELSE "stopped"]
    /\ due_rows = [w \in Workers |-> <<>>]
    /\ cur = [w \in Workers |-> 0]
    /\ attempt = [w \in Workers |-> 0]
    /\ post_data = [w \in Workers |-> NoPost]
    /\ fingerprint = [w \in Workers |-> NoFingerprint]
    /\ last_backfill_time = [w \in Workers |-> NULL]
    /\ sent = EmptyBag
    /\ turn = [w \in Workers |-> NewTurn]
    /\ repost_streams = <<>>
    /\ donor_chat = <<>>
    /\ last_message_id = [w \in Workers |-> 0]
    /\ new_messages = [w \in Workers |-> <<>>]
    /\ max_id = [w \in Workers |-> 0]
    /\ polled = {}
    /\ periodic_posts = <<>>
    /\ target_channels = [w \in Workers |-> <<>>]
    /\ current_time = [w \in Workers |-> 0]
    /\ client_cache = [s \in Sessions |-> "none"]
    /\ active_clients = [u \in Users |-> "none"]
    /\ client = [w \in Workers |-> NoClient]
    /\ starts = [s \in Sessions |-> 0]
    /\ channel_locks = [ch \in Channels |-> "free"]
    /\ session_string = "s1"
    /\ linked_accounts \in {[ph \in Phones |-> "none"]}
    /\ db_files = [w \in Workers |-> <<>>]
    /\ visited = [w \in Workers |-> {}]
    /\ \E k \in [{"a.db", "b.db"} -> 0..MaxTenantSlots] :
          tenants = [db \in {"a.db", "b.db"} |-> [id \in 1..k[db] |-> 0]]

SpecTenants == InitTenants /\ [][NextTenants]_vars

\* C36: when the random pass returns, every tenant database has been opened or
\* has raised, and in every database whose rows were read no due slot is left
\* that the pass did not attempt, whatever raised on the way
C36_ErrorsAreIsolated ==
    \A w \in Workers : pc[w] = "t_done" =>
        \A i \in DOMAIN DbFiles :
            LET db == DbFiles[i]
            IN  \/ <<db, "raised">> \in visited[w]
                \/ /\ <<db, "opened">> \in visited[w]
                   /\ \A id \in DOMAIN tenants[db] :
                         tenants[db][id] = 0 => <<db, id, "failed">> \in visited[w]

\* the pass has returned; the first database raised, a slot of the second
\* failed and the slot after it was committed
C36_LaterTenantAndSlotProcessed ==
    /\ pc["w1"] = "t_done"
    /\ <<"a.db", "raised">> \in visited["w1"]
    /\ <<"b.db", 1, "failed">> \in visited["w1"]
    /\ <<"b.db", 2, "committed">> \in visited["w1"]

\* C37: a record leaves published_dedup only in the failure handler of the slot
\* attempt that inserted it
C37_DeletesOnlyItsOwnRecord ==
    [][\A r \in published_dedup :
          r \notin published_dedup' =>
              \E w \in Workers :
                  /\ pc[w] = "handler2"
                  /\ <<r.channel_id, r.fingerprint>> \in turn[w].inserted]_vars

\* donor message id is settled for target ch: it was published there, or it was
\* skipped as a duplicate of a message published there
RepostSettled(id, ch) ==
    LET f == make_post_fingerprint(RepostData(donor_chat[id]))
    IN  \E m \in BagToSet(sent) :
            m.kind = "repost" /\ m.channel_id = ch /\ (m.post_id = id \/ m.fingerprint = f)

\* C38: a poll that moves last_message_id of a baselined stream forward leaves
\* behind no donor content message that is not settled for every target
C38_AdvancesOnlyPastSettled ==
    [][(/\ repost_streams # <<>>
        /\ repost_streams[1].last_message_id # 0
        /\ repost_streams'[1].last_message_id > repost_streams[1].last_message_id)
       => \A id \in DOMAIN donor_chat :
              (/\ id > repost_streams[1].last_message_id
               /\ id <= repost_streams'[1].last_message_id
               /\ donor_chat[id].kind # "service")
              => \A t \in DOMAIN repost_streams[1].targets :
                     RepostSettled(id, repost_streams[1].targets[t])]_vars

\* ---- the cleanup of past posts (database.py 636-686, main.py 81-93) ----

\* what is left of a deleted row of posts: ids are AUTOINCREMENT and never reused
DeletedRow ==
    [channel_id |-> 0, content_type |-> "deleted", content |-> <<>>, is_published |-> NULL,
     scheduled_time |-> NULL, random_post_id |-> NULL, donors |-> {},
     phone_number |-> "", is_public_channel |-> 0]

DeleteRows(p, ids) == [id \in DOMAIN p |-> IF id \in ids THEN DeletedRow ELSE p[id]]

\* database.py lines 643-646: the pending rows that are not random slots and
\* whose scheduled_time lies before t
PastPosts(p, t) ==
    {id \in DOMAIN p : /\ p[id].scheduled_time < t
                       /\ p[id].is_published = 0
                       /\ p[id].content_type \notin {"random", "deleted"}}

\* database.py lines 659-666: the times of a list that are still ahead
FutureTimes(times, t) == SelectSeq(times, LAMBDA x : x > t)

\* database.py lines 636-686, called for every tenant by the loop in main.py
\* (81-93, every 30 minutes) and by migrate_all_databases at startup (712)
cleanup_past_posts ==
    /\ posts' = DeleteRows(posts, PastPosts(posts, now))
    /\ random_posts' = [sid \in DOMAIN random_posts |->
                          IF random_posts[sid].is_active = 1
                          THEN [random_posts[sid] EXCEPT
                                   !.next_post_times = FutureTimes(@, now)]
                          ELSE random_posts[sid]]
    /\ UNCHANGED <<now, cfgVars, published_dedup, pc, due_rows, cur, locals,
                   last_backfill_time, sent, turn>>

NextCleanup ==
    \/ Next
    \/ cleanup_past_posts

\* one tick loop next to the cleanup loop, the stream active
InitCleanup ==
    InitWith({"w1"}, {DefaultCaps}, {migrate_published_dedup_table(create_user_database)},
             {<<o>> : o \in OneShots}
               \cup {<<RandomSlot(100, {}, 0)>>,
                     <<RandomSlot(100, {"@a"}, 0), RandomSlot(100, {"@a"}, 0)>>},
             {<<Stream(1, 1)>>}, MaxTime)

SpecCleanup == InitCleanup /\ [][NextCleanup]_vars

\* C39: while the tick loop has not run its first pass, no pending one-shot
\* slot that has come due is deleted
C39_DueOneShotKeptUntilAttempted ==
    [][\A id \in DOMAIN posts :
          (/\ posts[id].content_type \in OneShotKinds \cup {"repost"}
           /\ posts[id].is_published = 0
           /\ posts[id].scheduled_time <= now
           /\ \A w \in Workers : pc[w] \in {"start", "stopped"})
          => posts'[id] = posts[id]]_vars

\* ---- the migration pass at startup (database.py 688-715, main.py 131-162) ----

\* phone numbers a stream can carry: none, one without and one with the '+'
StreamPhones == {"", "1", "+1"}

\* database.py lines 614-626: the random rows whose phone_number is NULL, empty
\* or not LIKE '+%', or whose is_public_channel is not 0 or 1; the rows whose
\* JSON columns are not text (607-611) do not occur: the insert of backfill
\* writes json.dumps
BadRandomPosts(p) ==
    {id \in DOMAIN p : /\ p[id].content_type = "random"
                       /\ \/ p[id].phone_number \notin Phones
                          \/ p[id].is_public_channel \notin {0, 1}}

\* database.py lines 603-634
cleanup_bad_random_posts(p) == DeleteRows(p, BadRandomPosts(p))

\* schu.py lines 471-490: the credential get_random_post_from_donor reads the
\* donor with, "" when it has none
RandomSession(main, slot, accounts) ==
    IF slot.is_public_channel = 1 THEN main
    ELSE IF slot.phone_number \notin Phones THEN ""
    ELSE IF accounts[slot.phone_number] = "none" THEN ""
    ELSE accounts[slot.phone_number]

\* main.py lines 138-162 after the process was stopped: migrate_all_databases
\* (the dedup table at 706, the two cleanups at 711-712; the column migrations
\* find the current schema, and the rewrite of next_post_times_json at 710 is
\* overwritten by the backfill that follows), then scheduler.start()
migrate_all_databases(w) ==
    /\ pc[w] = "stopped"
    /\ dedup_table' = migrate_published_dedup_table(dedup_table)
    /\ posts' = LET p == cleanup_bad_random_posts(posts)
                IN  DeleteRows(p, PastPosts(p, now))
    /\ random_posts' = [sid \in DOMAIN random_posts |->
                          IF random_posts[sid].is_active = 1
                          THEN [random_posts[sid] EXCEPT
                                   !.next_post_times = FutureTimes(@, now)]
                          ELSE random_posts[sid]]
    /\ Goto(w, "start")
    /\ UNCHANGED <<now, horizon, Config, gateVars, tenantVars, repostVars, polled,
                   periodicVars, poolVars, published_dedup, due_rows, cur, locals,
                   last_backfill_time, sent, turn>>

NextMigrate ==
    \/ Next
    \/ migrate_all_databases("w1")

MigrateStreams ==
    {<<[Stream(1, 1) EXCEPT !.is_public_channel = pub, !.phone_number = ph]>> :
        pub \in {0, 1}, ph \in StreamPhones}

\* the slots a stream's backfill left in the store carry the stream's columns
MigrateStores ==
    {<<>>, <<RandomSlot(100, {}, 0)>>,
     <<RandomSlot(100, {"@a"}, 0), RandomSlot(100, {"@a"}, 0)>>}
    \cup {<<o>> : o \in OneShots}

\* one tick loop, the stream active; the process may be stopped and started again
InitMigrate ==
    /\ InitWith({"w1"}, {DefaultCaps}, {migrate_published_dedup_table(create_user_database)},
                {[id \in DOMAIN p |->
                     IF p[id].content_type = "random"
                     THEN [p[id] EXCEPT !.is_public_channel = s[1].is_public_channel,
                                        !.phone_number = s[1].phone_number]
                     ELSE p[id]] : p \in MigrateStores, s \in MigrateStreams},
                MigrateStreams, MaxTime)
    /\ \A id \in DOMAIN posts :
          posts[id].content_type = "random" =>
              /\ posts[id].is_public_channel = random_posts[1].is_public_channel
              /\ posts[id].phone_number = random_posts[1].phone_number

SpecMigrate == InitMigrate /\ [][NextMigrate]_vars

\* C40: a pending random slot of an active public-source stream whose phone is
\* empty or lacks the '+', and which the random pass has donors and a credential
\* for, is not deleted by any step, the migration pass included
C40_PublicSlotSurvivesMigration ==
    [][\A id \in DOMAIN posts :
          (/\ posts[id].content_type = "random"
           /\ posts[id].is_published = 0
           /\ posts[id].is_public_channel = 1
           /\ posts[id].phone_number \notin Phones
           /\ posts[id].donors # {}
           /\ RandomSession(session_string, posts[id], linked_accounts) # ""
           /\ random_posts[posts[id].random_post_id].is_active = 1)
          => posts'[id].content_type = "random"]_vars

====
